---- MODULE Spec2Model ----
(***************************************************************************)
(* OpenClaw Lite agent orchestration (agent v4.5): the retry executor      *)
(* withRetry, the tool dispatcher handleToolCall and the three provider    *)
(* loops chatOpenAI / chatClaude / chatGemini.                             *)
(***************************************************************************)
EXTENDS Integers, Sequences, FiniteSets, TLC

VARIABLES
    \* ---- withRetry (one invocation) ----
    rpc,            \* "idle" | "calling" | "sleeping" | "returned" | "thrown"
    attempt,        \* the for-loop variable
    lastError,      \* let lastError
    calls,          \* number of times fn() was invoked in this invocation
    sleeps,         \* the delays passed to sleep(), in order
    thrown,         \* the value that left withRetry by throw
    raised,         \* the value fn() rejected with at the latest attempt
    errPool,        \* the errors the mocked backend can reject with
    \* ---- chat() ----
    provider,       \* this.provider
    pc,             \* "loop" | "awaiting" | "tools" | "done" | "bench"
    toolTurns,      \* let toolTurns
    requests,       \* backend requests (withRetry invocations) of the turn
    messages,       \* the conversation sent with each request (role, call id)
    fullText,       \* let fullText
    totalInputTokens,
    totalOutputTokens,
    lastUsage,      \* usageMetadata of the latest Gemini result
    toolCalls,      \* the tool calls the provider loop kept from the response
    requested,      \* all tool calls the latest response contained
    tstate,         \* per kept tool call: "pending" | "running" | "done"
    idx,            \* position of the for/map over toolCalls
    observations,   \* tool results appended in this iteration
    dispatched,     \* call ids handed to handleToolCall in this iteration
    execLog,        \* script names handed to child_process.exec
    result,         \* what chat() returned
    sumIn,          \* sum of input tokens reported by every response
    sumOut,         \* sum of output tokens reported by every response
    allTools,       \* every response so far contained a tool call
    backendScript,  \* responses the mocked backend serves first, in order
    \* ---- OpenClawAgent fields ----
    apiKey,         \* this.apiKey
    claudeApiKey, geminiApiKey, openaiApiKey,
    claudeClient, geminiClient, openaiClient,   \* TRUE: the client instance exists
    \* ---- bot.ts ----
    isAutoRouting,  \* let isAutoRouting
    bpc,            \* position of the update handler: "idle" | "routing" | "chat"
    switchResult,   \* what the latest switchProvider call returned
    switchSeq,      \* flips at every switchProvider call
    switchArg,      \* the argument of the latest switchProvider call
    wasActive,      \* the two providers that were active before this one
    routeFrom,      \* this.provider when the handler called determineRoute
    routeOutcome,   \* how the classification call of this turn ended
    \* ---- one streamed response ----
    events,         \* the text deltas of the response, in order
    epos,           \* position of the for await over the stream
    sink,           \* the values passed to onChunk, in order
    \* ---- chat(): auto-search ----
    message,        \* the user message chat() was called with
    searchCalls,    \* the queries passed to vectorDB.search, in order
    hits,           \* what vectorDB.search answers: a result list, or "throws"
    sortedResults,  \* const sortedResults
    contextPrefix,  \* the digest lines prepended to the message
    enrichedMessage, \* const enrichedMessage: the text handed to the provider loop
    \* ---- ContextCache (lib/cache.ts) and the graph backend ----
    schemaCache,    \* this.schemaCache: Null or the cached counts
    lastSchemaUpdate, \* this.lastSchemaUpdate
    now,            \* Date.now(), in milliseconds
    graphDocs,      \* the number of documents the graph backend holds
    schemaServed,   \* what the latest getGraphSchema call resolved with
    schemaQueried,  \* the latest getGraphSchema call queried the graph backend
    schemaCalls,    \* flips at every getGraphSchema call
    invalidations,  \* flips at every invalidate() call
    \* ---- concurrent turns: the update handler and the scheduled jobs ----
    tpc,            \* per process: "idle" | "routing" | "entered" | "running"
    startedWith,    \* per process: this.provider when it called agent.chat
    servedBy,       \* per process: the provider loop chat() dispatched to
    \* ---- lib/db.ts and the update handlers that use it ----
    allowedId,      \* const ALLOWED_ID
    conversations,  \* the rows of table conversations, by id
    convSeq,        \* the AUTOINCREMENT counter of table conversations
    topics,         \* the rows of table topics, by id
    hpc,            \* position of the update handler: "idle" | "chat"
    upd,            \* the update the polling loop took last
    history,        \* the history the handler passed to agent.chat
    cmdSeq,         \* flips at every update
    \* ---- the token and cost accounting at the end of a provider loop ----
    reported,       \* the usage each response of the turn carried
    account,        \* the loop that served the turn and what it returned
    \* ---- the placeholder message of a text turn, as Telegram holds it ----
    thinkingMsg,    \* what the chat shows, the edits in flight, let lastUpdate
    \* ---- the reminder scheduler ----
    reminders,      \* the rows of table reminders, by id
    cronRuns,       \* the invocations of the cron callback, in start order
    delivered       \* per reminder: the messages Telegram delivered for it

retryVars == <<rpc, attempt, lastError, calls, sleeps, thrown, raised>>
chatVars  == <<provider, pc, toolTurns, requests, messages, fullText,
               totalInputTokens, totalOutputTokens, lastUsage, toolCalls,
               requested, tstate, idx, observations, dispatched, execLog,
               result, sumIn, sumOut, allTools>>
turnVars  == <<toolTurns, requests, messages, fullText, totalInputTokens,
               totalOutputTokens, lastUsage, toolCalls, requested, tstate, idx,
               observations, dispatched, execLog, result, sumIn, sumOut, allTools>>
keyVars    == <<claudeApiKey, geminiApiKey, openaiApiKey>>
clientVars == <<claudeClient, geminiClient, openaiClient>>
botVars    == <<isAutoRouting, bpc, switchResult, switchSeq, switchArg, wasActive, routeFrom,
               routeOutcome>>
streamVars == <<events, epos, sink>>
searchVars == <<message, searchCalls, hits, sortedResults, contextPrefix, enrichedMessage>>
cacheVars  == <<schemaCache, lastSchemaUpdate, now, graphDocs, schemaServed, schemaQueried,
                schemaCalls, invalidations>>
jobVars    == <<tpc, startedWith, servedBy>>
\* what the agent's turn of the single-turn specifications never assigns
dbVars     == <<allowedId, conversations, convSeq, topics, hpc, upd, history, cmdSeq>>
priceVars  == <<reported, account>>
sideVars   == <<thinkingMsg, reminders, cronRuns, delivered>>
storeVars  == <<cacheVars, jobVars, dbVars, priceVars, sideVars>>
\* what neither withRetry nor a provider loop assigns
hostVars   == <<backendScript, apiKey, keyVars, clientVars, botVars, streamVars, searchVars,
                storeVars>>
vars == <<rpc, attempt, lastError, calls, sleeps, thrown, raised, errPool,
          provider, pc, toolTurns, requests, messages, fullText,
          totalInputTokens, totalOutputTokens, lastUsage, toolCalls,
          requested, tstate, idx, observations, dispatched, execLog,
          result, sumIn, sumOut, allTools, backendScript,
          apiKey, claudeApiKey, geminiApiKey, openaiApiKey,
          claudeClient, geminiClient, openaiClient,
          isAutoRouting, bpc, switchResult, switchSeq, switchArg, wasActive, routeFrom,
          routeOutcome,
          events, epos, sink, message, searchCalls, hits, sortedResults, contextPrefix,
          enrichedMessage, cacheVars, jobVars, dbVars, priceVars, sideVars>>

----------------------------------------------------------------------------
\* Program constants

MAX_RETRIES == 3
RETRY_DELAYS == <<1000, 3000, 5000>>
MAX_TOOL_TURNS == 5

\* Bounds of the model

MaxMsgLen == 2      \* words in an error message
MaxNameLen == 2     \* parts of a script name
MaxToolSeq == 2     \* handleToolCall invocations of the dispatcher bench
MaxCalls == 2       \* tool calls in one response
MaxRequests == 6    \* requests after which the mocked Gemini backend stops asking for tools
MaxWords == 2       \* words of a user message
MaxHits == 3        \* results vectorDB.search answers with
MaxEvents == 3      \* text deltas of one streamed response

----------------------------------------------------------------------------
\* Errors.  A message is a sequence of words; status 0 is an error without
\* a status property.  id is the attempt that raised the error, so that two
\* errors with equal fields are still two values.

Words == {"overloaded", "rate", "limit", "bad"}
Statuses == {0, 400, 429, 500, 503}
Msgs == UNION {[1..n -> Words] : n \in 0..MaxMsgLen}
NoError == [name |-> "none", status |-> 0, message |-> <<>>, id |-> 0]
ApiErrors == [name : {"APIError"}, status : Statuses, message : Msgs, id : {0}]

\* String.prototype.includes on word sequences
Includes(s, sub) ==
    \E i \in 0..(Len(s) - Len(sub)) : SubSeq(s, i + 1, i + Len(sub)) = sub

isRetryable_AnyStatus(err) ==
    \/ err.status # 0
    \/ Includes(err.message, <<"overloaded">>)
    \/ Includes(err.message, <<"rate", "limit">>)

isRetryable(err) ==
    \/ err.status = 429
    \/ err.status = 500
    \/ err.status = 503
    \/ Includes(err.message, <<"overloaded">>)
    \/ Includes(err.message, <<"rate", "limit">>)

\* The client instance of provider p: "none" (undefined), "constructed"
\* (made by the constructor) or "switched" (made by switchProvider)
ClientOf(p) ==
    CASE p = "claude" -> claudeClient
      [] p = "gemini" -> geminiClient
      [] OTHER -> openaiClient

\* this.openaiClient!.chat.completions.create(...) and its siblings, the fn
\* the provider loops hand to withRetry: a missing client is a TypeError
TypeError == [name |-> "TypeError", status |-> 0,
              message |-> <<"Cannot read properties of undefined">>, id |-> 0]
FnErrors == IF ClientOf(provider) = "none" THEN {TypeError} ELSE errPool

RetryCatch_Wrapped(err, att) ==
    IF ~isRetryable(err) \/ att = MAX_RETRIES - 1
    THEN [do |-> "throw", delay |-> 0,
          value |-> [name |-> "Error", status |-> 0, message |-> err.message, id |-> err.id]]
    ELSE [do |-> "sleep", value |-> err, delay |-> RETRY_DELAYS[att + 1]]

RetryCatch_FirstDelay(err, att) ==
    IF ~isRetryable(err) \/ att = MAX_RETRIES - 1
    THEN [do |-> "throw", value |-> err, delay |-> 0]
    ELSE [do |-> "sleep", value |-> err, delay |-> RETRY_DELAYS[1]]

\* the catch block of withRetry: what happens to an error raised at attempt att
RetryCatch(err, att) ==
    IF ~isRetryable(err) \/ att = MAX_RETRIES - 1
    THEN [do |-> "throw", value |-> err, delay |-> 0]
    ELSE [do |-> "sleep", value |-> err, delay |-> RETRY_DELAYS[att + 1]]

RetryIdle ==
    /\ rpc = "idle" /\ attempt = 0 /\ lastError = NoError /\ calls = 0
    /\ sleeps = <<>> /\ thrown = NoError /\ raised = NoError

\* withRetry entered: lastError = null, attempt = 0, fn() about to be called
RetryEnter ==
    /\ rpc' = "calling" /\ attempt' = 0 /\ lastError' = NoError /\ calls' = 0
    /\ sleeps' = <<>> /\ thrown' = NoError /\ raised' = NoError

\* return await fn()
RetryAttemptOk ==
    /\ rpc = "calling"
    /\ ClientOf(provider) # "none"
    /\ rpc' = "returned"
    /\ calls' = calls + 1
    /\ UNCHANGED <<attempt, lastError, sleeps, thrown, raised, errPool, hostVars>>
    /\ UNCHANGED chatVars

\* fn() rejects with e: the catch block
RetryAttemptFail ==
    /\ rpc = "calling"
    /\ \E e \in FnErrors :
         LET err == [e EXCEPT !.id = calls + 1]
             c == RetryCatch(err, attempt)
         IN /\ calls' = calls + 1
            /\ raised' = err
            /\ lastError' = err
            /\ IF c.do = "throw"
               THEN /\ rpc' = "thrown"
                    /\ thrown' = c.value
                    /\ sleeps' = sleeps
               ELSE /\ rpc' = "sleeping"
                    /\ thrown' = thrown
                    /\ sleeps' = Append(sleeps, c.delay)
    /\ UNCHANGED <<attempt, errPool, hostVars>>
    /\ UNCHANGED chatVars

RetryWake_RestartsIteration ==
    /\ rpc = "sleeping"
    /\ attempt' = attempt + 1
    /\ IF attempt + 1 < MAX_RETRIES
       THEN rpc' = "calling" /\ thrown' = thrown
       ELSE rpc' = "thrown" /\ thrown' = lastError
    /\ messages' = IF requests > 1 THEN Append(messages, messages[Len(messages)])
                   ELSE messages
    /\ UNCHANGED <<lastError, calls, sleeps, raised, errPool, hostVars>>
    /\ UNCHANGED <<provider, pc, toolTurns, requests, fullText, totalInputTokens,
                   totalOutputTokens, lastUsage, toolCalls, requested, tstate, idx,
                   observations, dispatched, execLog, result, sumIn, sumOut, allTools>>

\* sleep(delay) resolves: attempt++ and the loop condition
RetryWake ==
    /\ rpc = "sleeping"
    /\ attempt' = attempt + 1
    /\ IF attempt + 1 < MAX_RETRIES
       THEN rpc' = "calling" /\ thrown' = thrown
       ELSE rpc' = "thrown" /\ thrown' = lastError
    /\ UNCHANGED <<lastError, calls, sleeps, raised, errPool, hostVars>>
    /\ UNCHANGED chatVars

----------------------------------------------------------------------------
\* What chat() returns.  Texts are sequences of pieces.

\* INPUT_PRICE / OUTPUT_PRICE of each provider loop, in thousandths of a
\* dollar per 1M tokens
INPUT_PRICE(p) == CASE p = "claude" -> 3000 [] p = "openai" -> 150 [] OTHER -> 75
OUTPUT_PRICE(p) == CASE p = "claude" -> 15000 [] p = "openai" -> 600 [] OTHER -> 300
KRW_RATE == 1450
\* parseFloat(((in / 1e6 * INPUT_PRICE + out / 1e6 * OUTPUT_PRICE) * KRW_RATE).toFixed(1)),
\* in tenths of a won (numerator and denominator divided by 50)
Cost(p, inTok, outTok) ==
    ((inTok * INPUT_PRICE(p) + outTok * OUTPUT_PRICE(p)) * (KRW_RATE \div 50) + 1000000)
        \div 2000000

NoResult == [kind |-> "none", text |-> <<>>, inTokens |-> 0, outTokens |-> 0,
             tokens |-> 0, cost |-> 0, err |-> NoError]
OkResult_NoText(text, inTok, outTok) ==
    [kind |-> "ok", text |-> <<>>, inTokens |-> inTok, outTokens |-> outTok,
     tokens |-> inTok + outTok, cost |-> Cost(provider, inTok, outTok), err |-> NoError]
\* return { text: fullText, stats, tokens, cost }
OkResult(text, inTok, outTok) ==
    [kind |-> "ok", text |-> text, inTokens |-> inTok, outTokens |-> outTok,
     tokens |-> inTok + outTok, cost |-> Cost(provider, inTok, outTok), err |-> NoError]
ErrResult_Accounted(e) ==
    [kind |-> "error", text |-> <<"Error: ">> \o e.message,
     inTokens |-> totalInputTokens, outTokens |-> totalOutputTokens,
     tokens |-> totalInputTokens + totalOutputTokens,
     cost |-> Cost(provider, totalInputTokens, totalOutputTokens), err |-> e]
\* the catch block of chatOpenAI / chatClaude / chatGemini:
\* return { text: `Error: ${err.message}`, stats: "", tokens: 0, cost: 0 }
ErrResult(e) ==
    [kind |-> "error", text |-> <<"Error: ">> \o e.message, inTokens |-> 0,
     outTokens |-> 0, tokens |-> 0, cost |-> 0, err |-> e]

----------------------------------------------------------------------------
\* chat() at rest (used by the specifications that do not run a turn)

ChatAtRest(p) ==
    /\ provider = "openai" /\ pc = p /\ toolTurns = 0 /\ requests = 0
    /\ messages = <<>> /\ fullText = <<>> /\ totalInputTokens = 0
    /\ totalOutputTokens = 0 /\ lastUsage = [in |-> 0, out |-> 0]
    /\ toolCalls = <<>> /\ requested = <<>> /\ tstate = <<>> /\ idx = 1
    /\ observations = <<>> /\ dispatched = <<>> /\ execLog = {}
    /\ result = NoResult /\ sumIn = 0 /\ sumOut = 0 /\ allTools = TRUE

\* the locals of chat() as a call finds them
LocalsAtStart ==
    /\ toolTurns = 0 /\ requests = 0
    /\ messages = << <<"user">> >> /\ fullText = <<>>
    /\ totalInputTokens = 0 /\ totalOutputTokens = 0
    /\ lastUsage = [in |-> 0, out |-> 0]
    /\ toolCalls = <<>> /\ requested = <<>> /\ tstate = <<>> /\ idx = 1
    /\ observations = <<>> /\ dispatched = <<>> /\ execLog = {}
    /\ result = NoResult /\ sumIn = 0 /\ sumOut = 0 /\ allTools = TRUE

----------------------------------------------------------------------------
\* JSON text.  JSON.stringify wraps a value into a text; JSON.parse takes it
\* back out, and throws SyntaxError on a text that is not JSON.

Stringify(v) == <<"json", v>>
Malformed == <<"text", "{\"filePath\": ">>
Parse(s) ==
    IF s[1] = "json" THEN [ok |-> TRUE, value |-> s[2]]
    ELSE [ok |-> FALSE, value |-> <<>>]

SyntaxError == [name |-> "SyntaxError", status |-> 0,
                message |-> <<"Unexpected", "end", "of", "JSON", "input">>, id |-> 0]

----------------------------------------------------------------------------
\* Tool dispatcher

\* the case labels of the switch in handleToolCall
RegisteredTools ==
    {"read_file", "search_files", "search_content", "list_dir", "copy_to_vault",
     "journal_memory", "write_file", "web_search", "run_script", "read_pdf",
     "set_reminder", "obsidian_link", "semantic_search", "graph_search",
     "find_connection"}

\* script names are sequences of parts, so that equality and prefix differ
ScriptParts == {"run_scraper.sh", "run_tracker.sh", ";id"}
ScriptNames == UNION {[1..n -> ScriptParts] : n \in 0..MaxNameLen}
allowed == {<<"run_scraper.sh">>, <<"run_tracker.sh">>}

ToolInput(script) == [scriptName |-> script]

ErrorPayload(body) == [kind |-> "error", body |-> body]
OkPayload(body) == [kind |-> "ok", body |-> body]
HandlerMessage == <<"ENOENT">>

HandleToolCall_PrefixMatch(name, input, outcome) ==
    IF name \notin RegisteredTools
    THEN [raised |-> FALSE, exec |-> {},
          payload |-> ErrorPayload(<<"Unknown: ", name>>)]
    ELSE IF outcome = "throw"
    THEN [raised |-> FALSE, exec |-> {}, payload |-> ErrorPayload(HandlerMessage)]
    ELSE IF name = "run_script"
    THEN IF \E a \in allowed :
              /\ Len(input.scriptName) >= Len(a)
              /\ SubSeq(input.scriptName, 1, Len(a)) = a
         THEN [raised |-> FALSE, exec |-> {input.scriptName},
               payload |-> OkPayload(<<"Started">>)]
         ELSE [raised |-> FALSE, exec |-> {},
               payload |-> ErrorPayload(<<"Unauthorized">>)]
    ELSE [raised |-> FALSE, exec |-> {}, payload |-> OkPayload(<<name>>)]

HandleToolCall_NoCatch(name, input, outcome) ==
    IF name \notin RegisteredTools
    THEN [raised |-> FALSE, exec |-> {},
          payload |-> ErrorPayload(<<"Unknown: ", name>>)]
    ELSE IF outcome = "throw"
    THEN [raised |-> TRUE, exec |-> {}, payload |-> ErrorPayload(HandlerMessage)]
    ELSE IF name = "run_script"
    THEN IF input.scriptName \in allowed
         THEN [raised |-> FALSE, exec |-> {input.scriptName},
               payload |-> OkPayload(<<"Started">>)]
         ELSE [raised |-> FALSE, exec |-> {},
               payload |-> ErrorPayload(<<"Unauthorized">>)]
    ELSE [raised |-> FALSE, exec |-> {}, payload |-> OkPayload(<<name>>)]

\* handleToolCall(name, input).  outcome says whether the handler of a
\* registered tool returns ("ok") or throws ("throw"; for run_script the
\* only throwing step is reading input.scriptName of a null input, before
\* the allow-list test).  raised: the call rejects instead of returning;
\* exec: the script names handed to child_process.exec; payload: the value
\* that is stringified and returned.
HandleToolCall(name, input, outcome) ==
    IF name \notin RegisteredTools
    THEN [raised |-> FALSE, exec |-> {},
          payload |-> ErrorPayload(<<"Unknown: ", name>>)]
    ELSE IF outcome = "throw"
    THEN [raised |-> FALSE, exec |-> {}, payload |-> ErrorPayload(HandlerMessage)]
    ELSE IF name = "run_script"
    THEN IF input.scriptName \in allowed
         THEN [raised |-> FALSE, exec |-> {input.scriptName},
               payload |-> OkPayload(<<"Started">>)]
         ELSE [raised |-> FALSE, exec |-> {},
               payload |-> ErrorPayload(<<"Unauthorized">>)]
    ELSE [raised |-> FALSE, exec |-> {}, payload |-> OkPayload(<<name>>)]

ToolError == [name |-> "Error", status |-> 0, message |-> HandlerMessage, id |-> 0]

NoObs == [id |-> <<0, 0>>, name |-> "", input |-> ToolInput(<<>>), threw |-> FALSE,
          content |-> Stringify(OkPayload(<<>>))]
Obs(id, name, input, outcome, h) ==
    [id |-> id, name |-> name, input |-> input, threw |-> (outcome = "throw"),
     content |-> Stringify(h.payload)]

\* direct calls of the dispatcher, one after another; observations holds
\* the result of the latest call
BenchNames == {"read_file", "web_search", "run_script", "delete_all", ""}
ToolBench ==
    /\ pc = "bench" /\ rpc = "idle"
    /\ Len(dispatched) < MaxToolSeq
    /\ \E name \in BenchNames, script \in ScriptNames, outcome \in {"ok", "throw"} :
         LET h == HandleToolCall(name, ToolInput(script), outcome)
             id == <<0, Len(dispatched) + 1>>
         IN /\ dispatched' = Append(dispatched, id)
            /\ IF h.raised
               THEN /\ result' = ErrResult(ToolError)
                    /\ pc' = "done"
                    /\ UNCHANGED <<observations, execLog>>
               ELSE /\ observations' = <<Obs(id, name, ToolInput(script), outcome, h)>>
                    /\ execLog' = execLog \cup h.exec
                    /\ UNCHANGED <<result, pc>>
    /\ UNCHANGED <<provider, toolTurns, requests, messages, fullText,
                   totalInputTokens, totalOutputTokens, lastUsage, toolCalls,
                   requested, tstate, idx, sumIn, sumOut, allTools>>
    /\ UNCHANGED <<rpc, attempt, lastError, calls, sleeps, thrown, raised, errPool, hostVars>>

----------------------------------------------------------------------------
\* The mocked backend: what a response can hold

Providers == {"openai", "claude", "gemini"}
SeqProviders == {"openai", "claude"}
\* text and usage of a response: an empty text, or a text with more tokens
Bodies == {[text |-> <<>>, usage |-> [in |-> 300, out |-> 100]],
           [text |-> <<"Done">>, usage |-> [in |-> 500, out |-> 200]]}
ChatErrors ==
    {[name |-> "APIError", status |-> 429, message |-> <<"rate", "limit">>, id |-> 0],
     [name |-> "APIError", status |-> 400, message |-> <<"bad">>, id |-> 0]}

\* name and arguments of a requested call; OpenAI and Claude deliver the
\* arguments as JSON text, Gemini as an object
\* (get_weather is not a case of the dispatcher's switch)
ArgObjects ==
    [name : {"read_file", "web_search", "get_weather"}, input : {ToolInput(<<>>)}]
CallShapes(p) ==
    IF p = "gemini"
    THEN {[name |-> a.name, arguments |-> a.input] : a \in ArgObjects}
    ELSE {[name |-> a.name, arguments |-> Stringify(a.input)] : a \in ArgObjects}
         \cup {[name |-> "read_file", arguments |-> Malformed]}
CallSeqs(p) == UNION {[1..n -> CallShapes(p)] : n \in 0..MaxCalls}
Responses(p) ==
    {[text |-> b.text, usage |-> b.usage, calls |-> cs] : b \in Bodies, cs \in CallSeqs(p)}

\* a scripted response, delivered in the wire format of provider p
ScriptedCalls(p, cs) ==
    [i \in 1..Len(cs) |->
        [name |-> cs[i].name,
         arguments |-> IF p = "gemini" THEN cs[i].input ELSE Stringify(cs[i].input)]]
\* what the mocked backend can answer to request number req: the script
\* first, anything afterwards
Served(p, req) ==
    IF req <= Len(backendScript)
    THEN {[text |-> backendScript[req].text, usage |-> backendScript[req].usage,
           calls |-> ScriptedCalls(p, backendScript[req].calls)]}
    ELSE Responses(p)
\* first a read_file request, then the plain text "Done"
ReadThenDone ==
    << [text |-> <<>>, usage |-> [in |-> 300, out |-> 100],
        calls |-> << [name |-> "read_file", input |-> ToolInput(<<>>)] >>],
       [text |-> <<"Done">>, usage |-> [in |-> 500, out |-> 200], calls |-> <<>>] >>
\* one plain answer
PlainDone ==
    << [text |-> <<"Done">>, usage |-> [in |-> 500, out |-> 200], calls |-> <<>>] >>

WithIds(cs, req) ==
    [i \in 1..Len(cs) |-> [id |-> <<req, i>>, name |-> cs[i].name,
                           arguments |-> cs[i].arguments]]
CallIds(cs) == [i \in 1..Len(cs) |-> cs[i].id]

\* the tool calls the stream handler of provider p has collected when the
\* stream ends: chatOpenAI fills toolCalls[tc.index], chatGemini filters the
\* functionCall parts, chatClaude overwrites currentToolUse at every
\* content_block_start of type tool_use
KeptCalls(p, cs) ==
    IF p = "claude" /\ Len(cs) > 0 THEN <<cs[Len(cs)]>> ELSE cs

Outcomes(name) == IF name \in RegisteredTools THEN {"ok", "throw"} ELSE {"ok"}

----------------------------------------------------------------------------
\* The agent's fields, the environment and the constructor

Undefined == "undefined"
\* the value of ANTHROPIC_API_KEY / GOOGLE_API_KEY / OPENAI_API_KEY when set
KeyOf(p) == CASE p = "claude" -> "sk-ant" [] p = "gemini" -> "AIza" [] OTHER -> "sk-oai"
\* env[p]: the key variable of provider p is set
Envs == [Providers -> BOOLEAN]
EnvValue(env, p) == IF env[p] THEN KeyOf(p) ELSE Undefined
\* v || ""
OrEmpty(v) == IF v = Undefined THEN "" ELSE v
\* if (this.claudeApiKey) this.claudeClient = createAnthropicClient(...)
ClientFor(key) == IF key # "" THEN "constructed" ELSE "none"

\* new OpenClawAgent(provider, apiKey, ..., process.env.GOOGLE_API_KEY)
Constructed(initialProvider, key, env) ==
    /\ provider = initialProvider
    /\ apiKey = key
    /\ claudeApiKey = OrEmpty(EnvValue(env, "claude"))
    /\ geminiApiKey = OrEmpty(OrEmpty(EnvValue(env, "gemini")))
    /\ openaiApiKey = OrEmpty(EnvValue(env, "openai"))
    /\ claudeClient = ClientFor(OrEmpty(EnvValue(env, "claude")))
    /\ geminiClient = ClientFor(OrEmpty(EnvValue(env, "gemini")))
    /\ openaiClient = ClientFor(OrEmpty(EnvValue(env, "openai")))

AllKeys == [p \in Providers |-> TRUE]

AgentState ==
    [provider |-> provider, apiKey |-> apiKey,
     claudeApiKey |-> claudeApiKey, geminiApiKey |-> geminiApiKey,
     openaiApiKey |-> openaiApiKey, claudeClient |-> claudeClient,
     geminiClient |-> geminiClient, openaiClient |-> openaiClient]

\* if (!this.claudeClient) this.claudeClient = createAnthropicClient(...)
Ensure(client) == IF client = "none" THEN "switched" ELSE client

\* the messages of switchProvider: "already", "no key", "switched"
Already(p) == [success |-> TRUE, message |-> <<"already", p>>]
NoKey(p) == [success |-> FALSE, message |-> <<"no key", p>>]
Switched(p) == [success |-> TRUE, message |-> <<"switched", p>>]
NoSwitch == [success |-> FALSE, message |-> <<>>]

switchProvider_DropsKey(a, newProvider) ==
    IF newProvider = a.provider
    THEN [agent |-> a, result |-> Already(newProvider)]
    ELSE IF newProvider = "claude"
    THEN IF a.claudeApiKey = ""
         THEN [agent |-> a, result |-> NoKey("claude")]
         ELSE [agent |-> [a EXCEPT !.claudeClient = Ensure(@), !.provider = "claude",
                                   !.apiKey = a.claudeApiKey, !.openaiApiKey = "",
                                   !.geminiApiKey = ""],
               result |-> Switched("claude")]
    ELSE IF newProvider = "gemini"
    THEN IF a.geminiApiKey = ""
         THEN [agent |-> a, result |-> NoKey("gemini")]
         ELSE [agent |-> [a EXCEPT !.geminiClient = Ensure(@), !.provider = "gemini",
                                   !.apiKey = a.geminiApiKey, !.openaiApiKey = "",
                                   !.claudeApiKey = ""],
               result |-> Switched("gemini")]
    ELSE IF newProvider = "openai"
    THEN IF a.openaiApiKey = ""
         THEN [agent |-> a, result |-> NoKey("openai")]
         ELSE [agent |-> [a EXCEPT !.openaiClient = Ensure(@), !.provider = "openai",
                                   !.apiKey = a.openaiApiKey, !.claudeApiKey = "",
                                   !.geminiApiKey = ""],
               result |-> Switched("openai")]
    ELSE [agent |-> a, result |-> Switched(a.provider)]

\* switchProvider(newProvider): the agent afterwards and the returned result
switchProvider(a, newProvider) ==
    IF newProvider = a.provider
    THEN [agent |-> a, result |-> Already(newProvider)]
    ELSE IF newProvider = "claude"
    THEN IF a.claudeApiKey = ""
         THEN [agent |-> a, result |-> NoKey("claude")]
         ELSE [agent |-> [a EXCEPT !.claudeClient = Ensure(@), !.provider = "claude",
                                   !.apiKey = a.claudeApiKey],
               result |-> Switched("claude")]
    ELSE IF newProvider = "gemini"
    THEN IF a.geminiApiKey = ""
         THEN [agent |-> a, result |-> NoKey("gemini")]
         ELSE [agent |-> [a EXCEPT !.geminiClient = Ensure(@), !.provider = "gemini",
                                   !.apiKey = a.geminiApiKey],
               result |-> Switched("gemini")]
    ELSE IF newProvider = "openai"
    THEN IF a.openaiApiKey = ""
         THEN [agent |-> a, result |-> NoKey("openai")]
         ELSE [agent |-> [a EXCEPT !.openaiClient = Ensure(@), !.provider = "openai",
                                   !.apiKey = a.openaiApiKey],
               result |-> Switched("openai")]
    ELSE [agent |-> a, result |-> Switched(a.provider)]

\* a call of agent.switchProvider(newProvider)
SwitchProviderCall(newProvider) ==
    LET r == switchProvider(AgentState, newProvider)
    IN /\ provider' = r.agent.provider
       /\ apiKey' = r.agent.apiKey
       /\ claudeApiKey' = r.agent.claudeApiKey
       /\ geminiApiKey' = r.agent.geminiApiKey
       /\ openaiApiKey' = r.agent.openaiApiKey
       /\ claudeClient' = r.agent.claudeClient
       /\ geminiClient' = r.agent.geminiClient
       /\ openaiClient' = r.agent.openaiClient
       /\ switchResult' = r.result
       /\ switchSeq' = 1 - switchSeq
       /\ switchArg' = newProvider
       /\ wasActive' = IF r.agent.provider # provider
                       THEN <<wasActive[2], provider>> ELSE wasActive

\* how the classification call of determineRoute can end: the content of
\* the reply, or the call throws
RouteOutcomes == {"complex", " Complex\n", "simple", "", "other", "throw"}

Decision_AsReplied(content) == content

\* response.choices[0].message.content?.toLowerCase().trim()
Decision(content) ==
    IF content = " Complex\n" THEN "complex" ELSE content

determineRoute_CatchOpenai(a, outcome) ==
    IF a.openaiClient = "none" THEN a.provider
    ELSE IF outcome = "throw" THEN "openai"
    ELSE IF Decision(outcome) = "complex" THEN "claude" ELSE "openai"

\* determineRoute(message): the provider it resolves with
determineRoute(a, outcome) ==
    IF a.openaiClient = "none" THEN a.provider
    ELSE IF outcome = "throw" THEN a.provider
    ELSE IF Decision(outcome) = "complex" THEN "claude" ELSE "openai"

----------------------------------------------------------------------------
\* chat(): the auto-search before the provider loop.  A message is a
\* sequence of words joined by single spaces.

Vocabulary == {"hi", "AI", "HBM", "explain", "https://example.com/a/report.pdf",
               "weather-in-seoul-this-afternoon"}
\* String.prototype.length of a word
WordLen(w) ==
    CASE w = "hi" -> 2
      [] w = "AI" -> 2
      [] w = "HBM" -> 3
      [] w = "explain" -> 7
      [] w = "https://example.com/a/report.pdf" -> 32
      [] OTHER -> 31
\* the word matches one of the patterns of needsContextSearch:
\* /...|AI|LLM/i ("AI", and the "ai" of "explain"), /...|SMR|HBM/i, /https?:\/\//
MatchesPattern(w) == w \in {"AI", "HBM", "explain", "https://example.com/a/report.pdf"}
\* the entries of knownCompanies / sectors / dealKeywords a message of this
\* vocabulary can include (message.includes is case sensitive), in list order
KeywordOrder == <<"AI", "HBM">>
MessagesUpTo(n) == UNION {[1..k -> Vocabulary] : k \in 0..n}

RECURSIVE MessageLength(_)
MessageLength(m) ==
    IF Len(m) = 0 THEN 0
    ELSE IF Len(m) = 1 THEN WordLen(m[1])
    ELSE WordLen(m[1]) + 1 + MessageLength(Tail(m))

MIN_MESSAGE_LENGTH == 30
Take(seq, n) == SubSeq(seq, 1, IF Len(seq) < n THEN Len(seq) ELSE n)

\* needsContextSearch(message)
needsContextSearch(m) ==
    IF MessageLength(m) < MIN_MESSAGE_LENGTH THEN FALSE
    ELSE \E i \in 1..Len(m) : MatchesPattern(m[i])

\* extractSearchKeywords(message): unique.slice(0, 5)
extractSearchKeywords(m) ==
    LET Included(k) == \E i \in 1..Len(m) : m[i] = k
    IN Take(SelectSeq(KeywordOrder, Included), 5)

\* Search results.  A filePath is a sequence of path parts, a score is in
\* hundredths.
priorityFiles == {"tracker", "_01_S", "_02_A", "_03_B"}
Paths == {<<"20_invest", "tracker", "list.md">>, <<"notes", "memo.md">>}
Scores == {20, 50, 90}
HitKinds == [filePath : Paths, score : Scores]
HitListsUpTo(n) == UNION {[1..k -> HitKinds] : k \in 0..n}
NoHits == [throws |-> FALSE, results |-> <<>>]

\* priorityFiles.some(p => path.includes(p))
isPriority(path) == \E i \in 1..Len(path) : path[i] \in priorityFiles

Compare_ScoreOnly(a, b) == b.score - a.score

\* the comparator handed to sort
Compare(a, b) ==
    IF isPriority(a.filePath) /\ ~isPriority(b.filePath) THEN 0 - 1
    ELSE IF ~isPriority(a.filePath) /\ isPriority(b.filePath) THEN 1
    ELSE b.score - a.score

\* Array.prototype.sort (stable): x goes before the first element it
\* compares lower than
RECURSIVE InsertSorted(_, _)
InsertSorted(x, sorted) ==
    IF Len(sorted) = 0 THEN <<x>>
    ELSE IF Compare(x, Head(sorted)) < 0 THEN <<x>> \o sorted
    ELSE <<Head(sorted)>> \o InsertSorted(x, Tail(sorted))
RECURSIVE SortResults(_)
SortResults(rs) ==
    IF Len(rs) = 0 THEN <<>>
    ELSE InsertSorted(rs[Len(rs)], SortResults(SubSeq(rs, 1, Len(rs) - 1)))

Rank_SliceThenFilter(rs) ==
    LET Relevant(r) == r.score > 20
    IN SelectSeq(Take(SortResults(rs), 5), Relevant)

\* results.filter(r => r.score > 0.2).sort(...).slice(0, 5)
Rank(rs) ==
    LET Relevant(r) == r.score > 20
    IN Take(SortResults(SelectSeq(rs, Relevant)), 5)

\* the digest line of a result: the star or the bullet, and the title
DigestLine(r) ==
    [mark |-> IF isPriority(r.filePath) THEN "star" ELSE "bullet",
     title |-> r.filePath[Len(r.filePath)]]
Digest(rs) == [i \in 1..Len(rs) |-> DigestLine(rs[i])]

\* A text handed to a provider loop is a sequence of parts: the search
\* context, when there is one, and the message
NoMessage == <<>>
MessagePart(m) == [part |-> "message", lines |-> <<>>, words |-> m]
ContextPart(prefix) == [part |-> "context", lines |-> prefix, words |-> <<>>]

Enrich_AlwaysPrefixed(prefix, m) == <<ContextPart(prefix), MessagePart(m)>>

\* const enrichedMessage = contextPrefix ? contextPrefix + message : message
Enrich(prefix, m) ==
    IF prefix # <<>> THEN <<ContextPart(prefix), MessagePart(m)>> ELSE <<MessagePart(m)>>

\* chat(): from the entry to the call of the provider loop
AutoSearch ==
    /\ pc = "enter"
    /\ LET needsSearch == needsContextSearch(message)
           keywords == extractSearchKeywords(message)
       IN IF needsSearch /\ Len(keywords) > 0
          THEN /\ searchCalls' = Append(searchCalls, keywords)
               /\ IF hits.throws \/ Len(hits.results) = 0
                  THEN UNCHANGED <<sortedResults, contextPrefix>>
                  ELSE /\ sortedResults' = Rank(hits.results)
                       /\ contextPrefix' = Digest(Rank(hits.results))
          ELSE UNCHANGED <<searchCalls, sortedResults, contextPrefix>>
    /\ enrichedMessage' = Enrich(contextPrefix', message)
    /\ pc' = "loop"
    /\ UNCHANGED <<message, hits, provider, turnVars, retryVars, errPool, backendScript,
                   apiKey, keyVars, clientVars, botVars, streamVars, storeVars>>

SearchAtRest ==
    /\ message = <<>> /\ searchCalls = <<>> /\ hits = NoHits
    /\ sortedResults = <<>> /\ contextPrefix = <<>> /\ enrichedMessage = NoMessage

----------------------------------------------------------------------------
\* One streamed response: the for await over the text deltas.  A delta is
\* a text, possibly empty.

Deltas == {<<>>, <<"a">>, <<"b">>}
EventSeqs == UNION {[1..n -> Deltas] : n \in 0..MaxEvents}

onDelta_Diff(p, text, delta) ==
    IF p = "openai" /\ delta = <<>>
    THEN [fullText |-> text, passed |-> <<>>]
    ELSE [fullText |-> text \o delta, passed |-> <<delta>>]

\* if (delta?.content) { fullText += delta.content; onChunk(fullText) }  (OpenAI)
\* fullText += event.delta.text; onChunk(fullText)                      (Claude)
\* fullText += chunk.text(); onChunk(fullText)                          (Gemini)
onDelta(p, text, delta) ==
    IF p = "openai" /\ delta = <<>>
    THEN [fullText |-> text, passed |-> <<>>]
    ELSE [fullText |-> text \o delta, passed |-> <<text \o delta>>]

\* fullText = "" before the for await
StreamStart ==
    /\ pc = "stream" /\ epos = 0
    /\ fullText' = <<>> /\ sink' = <<>> /\ epos' = 1
    /\ UNCHANGED <<events, provider, pc, toolTurns, requests, messages, totalInputTokens,
                   totalOutputTokens, lastUsage, toolCalls, requested, tstate, idx,
                   observations, dispatched, execLog, result, sumIn, sumOut, allTools>>
    /\ UNCHANGED <<retryVars, errPool, backendScript, apiKey, keyVars, clientVars,
                   botVars, searchVars, storeVars>>

\* one turn of the for await
StreamChunk ==
    /\ pc = "stream" /\ epos >= 1 /\ epos <= Len(events)
    /\ LET d == onDelta(provider, fullText, events[epos])
       IN /\ fullText' = d.fullText
          /\ sink' = sink \o d.passed
    /\ epos' = epos + 1
    /\ UNCHANGED <<events, provider, pc, toolTurns, requests, messages, totalInputTokens,
                   totalOutputTokens, lastUsage, toolCalls, requested, tstate, idx,
                   observations, dispatched, execLog, result, sumIn, sumOut, allTools>>
    /\ UNCHANGED <<retryVars, errPool, backendScript, apiKey, keyVars, clientVars,
                   botVars, searchVars, storeVars>>

StreamAtRest == events = <<>> /\ epos = 0 /\ sink = <<>>

----------------------------------------------------------------------------
\* chat(): the provider loops

RetryReset ==
    /\ rpc' = "idle" /\ attempt' = 0 /\ lastError' = NoError /\ calls' = 0
    /\ sleeps' = <<>> /\ thrown' = NoError /\ raised' = NoError

\* while (toolTurns < MAX_TOOL_TURNS) { let toolCalls = []; withRetry(create) ...
\* (OpenAI, Claude: the per-iteration variables start afresh)
\* withRetry(sendMessageStream) before and inside while (calls.length > 0)  (Gemini)
IssueRequest ==
    /\ pc = "loop"
    /\ provider = "gemini" \/ toolTurns < MAX_TOOL_TURNS
    /\ provider = "gemini" => geminiClient # "none"
    /\ pc' = "awaiting"
    /\ requests' = requests + 1
    /\ RetryEnter
    /\ toolCalls' = <<>> /\ requested' = <<>> /\ tstate' = <<>> /\ idx' = 1
    /\ observations' = <<>> /\ dispatched' = <<>>
    /\ UNCHANGED <<errPool, hostVars, provider, toolTurns, messages, fullText, totalInputTokens,
                   totalOutputTokens, lastUsage, execLog, result, sumIn, sumOut, allTools>>

\* the while condition fails: "Reached max turns", then the normal return
LoopExit ==
    /\ pc = "loop"
    /\ provider \in SeqProviders /\ ~(toolTurns < MAX_TOOL_TURNS)
    /\ pc' = "done"
    /\ result' = OkResult(fullText, totalInputTokens, totalOutputTokens)
    /\ UNCHANGED <<errPool, hostVars, provider, toolTurns, requests, messages, fullText,
                   totalInputTokens, totalOutputTokens, lastUsage, toolCalls, requested,
                   tstate, idx, observations, dispatched, execLog, sumIn, sumOut, allTools>>
    /\ UNCHANGED retryVars

\* the stream of one response is consumed to its end
ReceiveResponse ==
    /\ pc = "awaiting" /\ rpc = "returned"
    /\ \E resp \in Served(provider, requests) :
         /\ (provider = "gemini" /\ requests >= MaxRequests) => resp.calls = <<>>
         \* past MAX_TOOL_TURNS requests the mocked Gemini backend asks for one tool at most
         /\ (provider = "gemini" /\ requests > MAX_TOOL_TURNS) => Len(resp.calls) <= 1
         /\ LET all == WithIds(resp.calls, requests)
                kept == KeptCalls(provider, all)
                newIn == IF provider = "gemini" THEN totalInputTokens
                         ELSE totalInputTokens + resp.usage.in
                newOut == IF provider = "gemini" THEN totalOutputTokens
                          ELSE totalOutputTokens + resp.usage.out
            IN /\ fullText' = resp.text
               /\ totalInputTokens' = newIn
               /\ totalOutputTokens' = newOut
               /\ lastUsage' = IF provider = "gemini" THEN resp.usage ELSE lastUsage
               /\ sumIn' = sumIn + resp.usage.in
               /\ sumOut' = sumOut + resp.usage.out
               /\ requested' = all
               /\ toolCalls' = kept
               /\ allTools' = (allTools /\ Len(all) > 0)
               /\ IF Len(kept) = 0
                  THEN /\ pc' = "done"
                       /\ result' = IF provider = "gemini"
                                    THEN OkResult(resp.text, resp.usage.in, resp.usage.out)
                                    ELSE OkResult(resp.text, newIn, newOut)
                       /\ UNCHANGED <<toolTurns, messages, tstate, idx, observations,
                                      dispatched>>
                  ELSE /\ pc' = "tools"
                       /\ result' = result
                       /\ toolTurns' = IF provider = "gemini" THEN toolTurns
                                       ELSE toolTurns + 1
                       /\ messages' = IF provider = "openai"
                                      THEN Append(messages, <<"assistant", CallIds(kept)>>)
                                      ELSE messages
                       /\ tstate' = [i \in 1..Len(kept) |-> "pending"]
                       /\ observations' = [i \in 1..Len(kept) |-> NoObs]
                       /\ idx' = 1
                       /\ dispatched' = <<>>
    /\ RetryReset
    /\ UNCHANGED <<errPool, hostVars, provider, requests, execLog>>

CatchBackendError_Failover ==
    /\ pc = "awaiting" /\ rpc = "thrown"
    /\ pc' = "done"
    /\ result' = ErrResult(thrown)
    /\ provider' = IF provider = "openai" THEN "claude" ELSE "openai"
    /\ UNCHANGED <<errPool, hostVars, toolTurns, requests, messages, fullText,
                   totalInputTokens, totalOutputTokens, lastUsage, toolCalls, requested,
                   tstate, idx, observations, dispatched, execLog, sumIn, sumOut, allTools>>
    /\ UNCHANGED retryVars

\* catch (err) of the provider loop, entered by an error withRetry threw
CatchBackendError ==
    /\ pc = "awaiting" /\ rpc = "thrown"
    /\ pc' = "done"
    /\ result' = ErrResult(thrown)
    /\ UNCHANGED <<errPool, hostVars, provider, toolTurns, requests, messages, fullText,
                   totalInputTokens, totalOutputTokens, lastUsage, toolCalls, requested,
                   tstate, idx, observations, dispatched, execLog, sumIn, sumOut, allTools>>
    /\ UNCHANGED retryVars

StreamError_Retried ==
    /\ pc = "awaiting" /\ rpc = "returned"
    /\ \E e \in errPool :
         LET err == [e EXCEPT !.id = calls + 1]
         IN /\ raised' = err
            /\ IF isRetryable(err)
               THEN /\ rpc' = "sleeping"
                    /\ sleeps' = Append(sleeps, RETRY_DELAYS[1])
                    /\ UNCHANGED <<pc, result>>
               ELSE /\ pc' = "done"
                    /\ result' = ErrResult(err)
                    /\ UNCHANGED <<rpc, sleeps>>
    /\ UNCHANGED <<attempt, lastError, calls, thrown>>
    /\ UNCHANGED <<errPool, hostVars, provider, toolTurns, requests, messages, fullText,
                   totalInputTokens, totalOutputTokens, lastUsage, toolCalls, requested,
                   tstate, idx, observations, dispatched, execLog, sumIn, sumOut, allTools>>

\* for await (const chunk of response) rejects (OpenAI, Claude), or
\* for await (const chunk of result.stream) / await result.response (Gemini):
\* withRetry has returned, the error goes to catch (err) of the provider loop
StreamError ==
    /\ pc = "awaiting" /\ rpc = "returned"
    /\ \E e \in errPool :
         LET err == [e EXCEPT !.id = calls + 1]
         IN /\ raised' = err
            /\ pc' = "done"
            /\ result' = ErrResult(err)
    /\ UNCHANGED <<rpc, attempt, lastError, calls, sleeps, thrown>>
    /\ UNCHANGED <<errPool, hostVars, provider, toolTurns, requests, messages, fullText,
                   totalInputTokens, totalOutputTokens, lastUsage, toolCalls, requested,
                   tstate, idx, observations, dispatched, execLog, sumIn, sumOut, allTools>>

\* what is appended to the conversation for the finished call tc
PushResult(tc) ==
    IF provider = "openai" THEN Append(messages, <<"tool", tc.id>>)
    ELSE IF provider = "claude"
    THEN messages \o << <<"assistant", <<tc.id>> >>, <<"tool_result", tc.id>> >>
    ELSE messages

\* handleToolCall for call i has settled with the given handler outcome
CompleteCall(i, input, outcome) ==
    LET tc == toolCalls[i]
        h == HandleToolCall(tc.name, input, outcome)
        text == Stringify(h.payload)
        content == IF provider = "gemini" THEN Parse(text).value ELSE text
    IN IF h.raised
       THEN /\ pc' = "done"
            /\ result' = ErrResult(ToolError)
            /\ UNCHANGED <<tstate, observations, execLog, messages>>
       ELSE /\ tstate' = [tstate EXCEPT ![i] = "done"]
            /\ observations' = [observations EXCEPT ![i] =
                  [id |-> tc.id, name |-> tc.name, input |-> input,
                   threw |-> (outcome = "throw"), content |-> content]]
            /\ execLog' = execLog \cup h.exec
            /\ messages' = PushResult(tc)
            /\ UNCHANGED <<pc, result>>

\* for (const tc of toolCalls) { await handleToolCall(name, JSON.parse(arguments))
\* (OpenAI); JSON.parse(currentToolUse.input), await handleToolCall (Claude)
SeqToolStart ==
    /\ pc = "tools" /\ provider \in SeqProviders
    /\ idx <= Len(toolCalls) /\ tstate[idx] = "pending"
    /\ LET tc == toolCalls[idx]
           p == Parse(tc.arguments)
       IN IF ~p.ok
          THEN /\ pc' = "done"
               /\ result' = ErrResult(SyntaxError)
               /\ UNCHANGED <<tstate, observations, execLog, messages, idx, dispatched>>
          ELSE /\ dispatched' = Append(dispatched, tc.id)
               /\ tstate' = [tstate EXCEPT ![idx] = "running"]
               /\ UNCHANGED <<observations, execLog, messages, idx, pc, result>>
    /\ UNCHANGED <<errPool, hostVars, provider, toolTurns, requests, fullText, totalInputTokens,
                   totalOutputTokens, lastUsage, toolCalls, requested, sumIn, sumOut,
                   allTools>>
    /\ UNCHANGED retryVars

\* the promise of the handleToolCall in progress settles; the result is pushed
SeqToolFinish ==
    /\ pc = "tools" /\ provider \in SeqProviders
    /\ idx <= Len(toolCalls) /\ tstate[idx] = "running"
    /\ \E outcome \in Outcomes(toolCalls[idx].name) :
         CompleteCall(idx, Parse(toolCalls[idx].arguments).value, outcome)
    /\ idx' = idx + 1
    /\ UNCHANGED <<errPool, hostVars, provider, toolTurns, requests, fullText, totalInputTokens,
                   totalOutputTokens, lastUsage, toolCalls, requested, dispatched, sumIn,
                   sumOut, allTools>>
    /\ UNCHANGED retryVars

\* calls.map(async c => ... await this.handleToolCall(name, args)): the map
\* calls handleToolCall for one call after the other; handleToolCall is an
\* async function, so none of its promises settles before the map has returned
GeminiDispatch ==
    /\ pc = "tools" /\ provider = "gemini"
    /\ idx <= Len(toolCalls) /\ tstate[idx] = "pending"
    /\ LET tc == toolCalls[idx]
       IN /\ dispatched' = Append(dispatched, tc.id)
          /\ tstate' = [tstate EXCEPT ![idx] = "running"]
          /\ UNCHANGED <<observations, execLog, messages, pc, result>>
    /\ idx' = idx + 1
    /\ UNCHANGED <<errPool, hostVars, provider, toolTurns, requests, fullText, totalInputTokens,
                   totalOutputTokens, lastUsage, toolCalls, requested, sumIn, sumOut,
                   allTools>>
    /\ UNCHANGED retryVars

\* after the map has returned, the promises settle in any order
GeminiFinish ==
    /\ pc = "tools" /\ provider = "gemini"
    /\ idx > Len(toolCalls)
    /\ \E i \in 1..Len(toolCalls) :
         /\ tstate[i] = "running"
         /\ \E outcome \in Outcomes(toolCalls[i].name) :
              CompleteCall(i, toolCalls[i].arguments, outcome)
    /\ UNCHANGED <<errPool, hostVars, provider, toolTurns, requests, fullText, totalInputTokens,
                   totalOutputTokens, lastUsage, toolCalls, requested, dispatched, idx,
                   sumIn, sumOut, allTools>>
    /\ UNCHANGED retryVars

\* every call of the iteration has its result: back to the loop condition
\* (for Gemini, Promise.all resolves with the functionResponse list)
ToolsDone ==
    /\ pc = "tools"
    /\ idx > Len(toolCalls)
    /\ \A i \in 1..Len(toolCalls) : tstate[i] = "done"
    /\ pc' = "loop"
    /\ messages' = IF provider = "gemini"
                   THEN Append(messages, <<"functionResponses", CallIds(toolCalls)>>)
                   ELSE messages
    /\ UNCHANGED <<errPool, hostVars, provider, toolTurns, requests, fullText, totalInputTokens,
                   totalOutputTokens, lastUsage, toolCalls, requested, tstate, idx,
                   observations, dispatched, execLog, result, sumIn, sumOut, allTools>>
    /\ UNCHANGED retryVars

\* this.geminiClient!.getGenerativeModel(...) with no client: the TypeError
\* is raised before the first withRetry and caught by chatGemini
GeminiNoClient ==
    /\ pc = "loop" /\ provider = "gemini" /\ geminiClient = "none"
    /\ pc' = "done"
    /\ result' = ErrResult(TypeError)
    /\ UNCHANGED <<errPool, hostVars, provider, toolTurns, requests, messages, fullText,
                   totalInputTokens, totalOutputTokens, lastUsage, toolCalls, requested,
                   tstate, idx, observations, dispatched, execLog, sumIn, sumOut, allTools>>
    /\ UNCHANGED retryVars

----------------------------------------------------------------------------
\* bot.ts: the update handlers.  The long-polling loop runs one handler at
\* a time.

\* the locals of chat() and of withRetry as a call of chat() finds them
FreshLocals ==
    /\ toolTurns' = 0 /\ requests' = 0 /\ messages' = << <<"user">> >>
    /\ fullText' = <<>> /\ totalInputTokens' = 0 /\ totalOutputTokens' = 0
    /\ lastUsage' = [in |-> 0, out |-> 0]
    /\ toolCalls' = <<>> /\ requested' = <<>> /\ tstate' = <<>> /\ idx' = 1
    /\ observations' = <<>> /\ dispatched' = <<>> /\ execLog' = {}
    /\ result' = NoResult /\ sumIn' = 0 /\ sumOut' = 0 /\ allTools' = TRUE
    /\ RetryReset

\* await agent.chat(contextPrefix + userMessage, history, onChunk)
ChatEnter ==
    /\ pc' = "enter"
    /\ FreshLocals
    /\ UNCHANGED <<errPool, backendScript, streamVars, searchVars, storeVars>>

\* what a user can type after /provider
CommandArgs == {"auto", "claude", "gemini", "openai", "grok"}

\* bot.command("provider")
ProviderCommand ==
    /\ bpc = "idle"
    /\ \E args \in CommandArgs :
         IF args = "auto"
         THEN /\ isAutoRouting' = TRUE
              /\ UNCHANGED <<provider, apiKey, keyVars, clientVars, switchResult, switchSeq,
                             switchArg, wasActive>>
         ELSE /\ isAutoRouting' = FALSE
              /\ SwitchProviderCall(args)
    /\ UNCHANGED <<bpc, routeFrom, routeOutcome, pc, turnVars, retryVars, errPool,
                   backendScript, streamVars, searchVars, storeVars>>

\* bot.on("message:text") up to its first await
TextBegin ==
    /\ bpc = "idle"
    /\ IF isAutoRouting
       THEN /\ bpc' = "routing"
            /\ routeFrom' = provider
            /\ UNCHANGED <<pc, turnVars, retryVars, errPool, backendScript, streamVars,
                           searchVars, storeVars>>
       ELSE /\ bpc' = "chat"
            /\ ChatEnter
            /\ UNCHANGED routeFrom
    /\ UNCHANGED <<provider, apiKey, keyVars, clientVars, isAutoRouting, switchResult,
                   switchSeq, switchArg, wasActive, routeOutcome>>

\* determineRoute settles; agent.switchProvider(targetProvider); agent.chat(...)
RouteSettle ==
    /\ bpc = "routing"
    /\ \E outcome \in (IF openaiClient = "none" THEN {"noclient"} ELSE RouteOutcomes) :
         /\ SwitchProviderCall(determineRoute(AgentState, outcome))
         /\ routeOutcome' = outcome
    /\ bpc' = "chat"
    /\ ChatEnter
    /\ UNCHANGED <<isAutoRouting, routeFrom>>

\* agent.chat has returned: saveConversation, editMessageText
TurnEnd ==
    /\ bpc = "chat" /\ pc = "done"
    /\ bpc' = "idle" /\ pc' = "idle"
    /\ routeOutcome' = "none"
    /\ FreshLocals
    /\ UNCHANGED <<provider, apiKey, keyVars, clientVars, isAutoRouting, switchResult,
                   switchSeq, switchArg, wasActive, routeFrom, errPool, backendScript, streamVars,
                   searchVars, storeVars>>

\* the photo handler: await agent.chatWithImage(caption, buffer, mimeType),
\* one request without retry, answered or failed
ChatWithImage ==
    /\ bpc = "idle"
    /\ \E answered \in BOOLEAN :
         result' = IF answered /\ ClientOf(provider) # "none"
                   THEN [NoResult EXCEPT !.kind = "image", !.text = <<"Done">>]
                   ELSE [NoResult EXCEPT !.kind = "image", !.text = <<"Error: ", "bad">>]
    /\ UNCHANGED <<provider, pc, toolTurns, requests, messages, fullText,
                   totalInputTokens, totalOutputTokens, lastUsage, toolCalls, requested,
                   tstate, idx, observations, dispatched, execLog, sumIn, sumOut, allTools>>
    /\ UNCHANGED <<retryVars, errPool, hostVars>>

BotAtRest ==
    /\ isAutoRouting = FALSE /\ bpc = "idle" /\ switchResult = NoSwitch
    /\ switchSeq = 0 /\ switchArg = "" /\ wasActive = <<"", "">>
    /\ routeFrom = "openai" /\ routeOutcome = "none"

----------------------------------------------------------------------------
\* lib/cache.ts: the graph schema digest of the system prompt.  Times are
\* in milliseconds.

schemaCacheExpiry == 300000
MaxNow == 900000        \* the clock stops here
\* a minute, and one millisecond less than the expiry
ClockSteps == {60000, 299999}
MaxDocs == 2            \* documents the graph backend can hold

NoSchema == [cached |-> FALSE, documents |-> 0]
\* formatSchema(schema) and getBasicSchema()
formatSchema(schema) == <<"Graph Schema", schema.documents>>
BasicSchema == <<"Vault Structure", 0>>
NothingServed == <<"", 0>>

\* how graphDB.getStats() can end: answered, or rejected (no driver, or the
\* query failed)
StatsOutcomes == [ok : BOOLEAN, documents : 0..MaxDocs]

getGraphSchema_Inclusive(c, last, t, stats) ==
    IF c.cached /\ (t - last) <= schemaCacheExpiry
    THEN [cache |-> c, last |-> last, served |-> formatSchema(c), queried |-> FALSE]
    ELSE IF stats.ok
    THEN [cache |-> [cached |-> TRUE, documents |-> stats.documents], last |-> t,
          served |-> formatSchema([cached |-> TRUE, documents |-> stats.documents]),
          queried |-> TRUE]
    ELSE [cache |-> c, last |-> last, served |-> BasicSchema, queried |-> TRUE]

getGraphSchema_StoresFallback(c, last, t, stats) ==
    IF c.cached /\ (t - last) < schemaCacheExpiry
    THEN [cache |-> c, last |-> last, served |-> formatSchema(c), queried |-> FALSE]
    ELSE IF stats.ok
    THEN [cache |-> [cached |-> TRUE, documents |-> stats.documents], last |-> t,
          served |-> formatSchema([cached |-> TRUE, documents |-> stats.documents]),
          queried |-> TRUE]
    ELSE [cache |-> [cached |-> TRUE, documents |-> 0], last |-> t,
          served |-> BasicSchema, queried |-> TRUE]

\* getGraphSchema(graphDB) called at time t with the cache c, last: the
\* fields afterwards, the digest it resolves with, and whether it called
\* graphDB.getStats()
getGraphSchema(c, last, t, stats) ==
    IF c.cached /\ (t - last) < schemaCacheExpiry
    THEN [cache |-> c, last |-> last, served |-> formatSchema(c), queried |-> FALSE]
    ELSE IF stats.ok
    THEN [cache |-> [cached |-> TRUE, documents |-> stats.documents], last |-> t,
          served |-> formatSchema([cached |-> TRUE, documents |-> stats.documents]),
          queried |-> TRUE]
    ELSE [cache |-> c, last |-> last, served |-> BasicSchema, queried |-> TRUE]

\* getBootstrapContext(): await this.contextCache.getGraphSchema(this.graphDB)
GetGraphSchema ==
    /\ \E ok \in BOOLEAN :
         LET r == getGraphSchema(schemaCache, lastSchemaUpdate, now,
                                 [ok |-> ok, documents |-> graphDocs])
         IN /\ schemaCache' = r.cache
            /\ lastSchemaUpdate' = r.last
            /\ schemaServed' = r.served
            /\ schemaQueried' = r.queried
    /\ schemaCalls' = 1 - schemaCalls
    /\ UNCHANGED <<now, graphDocs, invalidations>>
    /\ UNCHANGED <<retryVars, errPool, chatVars, backendScript, apiKey, keyVars, clientVars,
                   botVars, streamVars, searchVars, jobVars, dbVars, priceVars, sideVars>>

\* invalidate()
Invalidate ==
    /\ schemaCache' = NoSchema
    /\ lastSchemaUpdate' = 0
    /\ invalidations' = 1 - invalidations

\* how /buildgraph can end: Neo4j is not configured, the connection fails,
\* the build throws, or the graph is rebuilt
BuildOutcomes == {"noconfig", "noconnect", "throws", "built"}

\* bot.command("buildgraph"): graphDB.buildGraph(...), agent.invalidateCache()
BuildGraphCommand ==
    /\ \E outcome \in BuildOutcomes, docs \in 0..MaxDocs :
         IF outcome = "built"
         THEN /\ graphDocs' = docs
              /\ Invalidate
         ELSE /\ graphDocs' = IF outcome = "throws" THEN docs ELSE graphDocs
              /\ UNCHANGED <<schemaCache, lastSchemaUpdate, invalidations>>
    /\ UNCHANGED <<now, schemaServed, schemaQueried, schemaCalls>>
    /\ UNCHANGED <<retryVars, errPool, chatVars, backendScript, apiKey, keyVars, clientVars,
                   botVars, streamVars, searchVars, jobVars, dbVars, priceVars, sideVars>>

\* time passes
Tick ==
    /\ \E d \in ClockSteps :
         /\ now + d <= MaxNow
         /\ now' = now + d
    /\ UNCHANGED <<schemaCache, lastSchemaUpdate, graphDocs, schemaServed, schemaQueried,
                   schemaCalls, invalidations>>
    /\ UNCHANGED <<retryVars, errPool, chatVars, backendScript, apiKey, keyVars, clientVars,
                   botVars, streamVars, searchVars, jobVars, dbVars, priceVars, sideVars>>

\* new ContextCache(vaultPath)
CacheAtRest ==
    /\ schemaCache = NoSchema /\ lastSchemaUpdate = 0 /\ now = 0 /\ graphDocs = 0
    /\ schemaServed = NothingServed /\ schemaQueried = FALSE
    /\ schemaCalls = 0 /\ invalidations = 0

----------------------------------------------------------------------------
\* lib/db.ts: the tables conversations and topics, and the update handlers
\* of the bot that read and write them

\* getHistory(userId, 20)
HISTORY_LIMIT == 20
MaxRowId == 4
MaxTopicRows == 3

\* process.env.ALLOWED_USER_ID as the deployment sets it, another Telegram
\* user, and an update without a sender (ctx.from?.id is undefined)
AllowedUser == "7"
OtherUser == "8"
\* Number(undefined)
NaN == "NaN"
Senders == {AllowedUser, OtherUser, Undefined}
\* a === b: NaN equals nothing, itself included
StrictEqual(a, b) == a # NaN /\ b # NaN /\ a = b
\* const ALLOWED_ID = Number(process.env.ALLOWED_USER_ID)
AllowedIds == {AllowedUser, NaN}

Null == "null"
TopicNames == {"ai", "hbm"}
\* ctx.message?.text?.split(" ").slice(1).join(" ").trim() || ""
TopicArgs == {"", "clear"} \cup TopicNames
UserMessages == {<<"hi">>, <<"plan">>}
NoUpdate == [sender |-> Undefined, kind |-> "none", args |-> "", text |-> <<>>,
             passed |-> FALSE, outcome |-> "none"]

\* INSERT INTO conversations (user_id, role, content, tokens, cost)
saveConversation(conv, seq, userId, role, content, tokens, cost) ==
    Append(conv, [id |-> seq + 1, user_id |-> userId, role |-> role, content |-> content,
                  tokens |-> tokens, cost |-> cost])

\* WHERE user_id = ?
RowsOf(rows, userId) ==
    LET OfUser(r) == r.user_id = userId IN SelectSeq(rows, OfUser)

\* ORDER BY id DESC LIMIT ?, then rows.reverse()
LastRows(rows, limit) ==
    IF Len(rows) <= limit THEN rows ELSE SubSeq(rows, Len(rows) - limit + 1, Len(rows))

\* SELECT role, content FROM conversations WHERE user_id = ?
getHistory(conv, userId, limit) ==
    LET rows == LastRows(RowsOf(conv, userId), limit)
    IN  [i \in 1..Len(rows) |-> [role |-> rows[i].role, content |-> rows[i].content]]

\* DELETE FROM conversations WHERE user_id = ?
clearHistory(conv, userId) ==
    LET Kept(r) == r.user_id # userId IN SelectSeq(conv, Kept)

\* SELECT topic_name FROM topics WHERE user_id = ? AND is_active = 1
\* ORDER BY created_at DESC LIMIT 1; return row?.topic_name || null
getActiveTopic(tp, userId) ==
    LET Active(r) == r.user_id = userId /\ r.is_active = 1
        rows == SelectSeq(tp, Active)
    IN  IF rows = <<>> THEN Null
        ELSE IF rows[Len(rows)].topic_name = "" THEN Null
        ELSE rows[Len(rows)].topic_name

\* UPDATE topics SET is_active = 0 WHERE user_id = ?
clearActiveTopic(tp, userId) ==
    [i \in 1..Len(tp) |-> IF tp[i].user_id = userId
                          THEN [tp[i] EXCEPT !.is_active = 0] ELSE tp[i]]

setActiveTopic_InsertOnly(tp, userId, topicName) ==
    Append(tp, [user_id |-> userId, topic_name |-> topicName, is_active |-> 1])
\* the UPDATE of clearActiveTopic, then
\* INSERT INTO topics (user_id, topic_name, is_active) VALUES (?, ?, 1)
setActiveTopic(tp, userId, topicName) ==
    Append(clearActiveTopic(tp, userId),
           [user_id |-> userId, topic_name |-> topicName, is_active |-> 1])

RECURSIVE SumOf(_, _)
SumOf(rows, field) ==
    IF rows = <<>> THEN 0 ELSE rows[1][field] + SumOf(Tail(rows), field)

\* SELECT COALESCE(SUM(tokens), 0), COALESCE(SUM(cost), 0), COUNT(*) FROM
\* conversations WHERE user_id = ? AND role = 'assistant' (the rows of one
\* day, and of one month for getMonthlyCost)
getTodayCost(conv, userId) ==
    LET Billed(r) == r.user_id = userId /\ r.role = "assistant"
        rows == SelectSeq(conv, Billed)
    IN  [tokens |-> SumOf(rows, "tokens"), cost |-> SumOf(rows, "cost"),
         messages |-> Len(rows)]

SaveTurn_AssistantFirst(conv, seq, userId, userMessage, r) ==
    saveConversation(saveConversation(conv, seq, userId, "assistant", r.text, r.tokens, r.cost),
                     seq + 1, userId, "user", userMessage, 0, 0)
\* saveConversation(userId, "user", userMessage);
\* saveConversation(userId, "assistant", text, tokens, cost)
SaveTurn(conv, seq, userId, userMessage, r) ==
    saveConversation(saveConversation(conv, seq, userId, "user", userMessage, 0, 0),
                     seq + 1, userId, "assistant", r.text, r.tokens, r.cost)

\* saveConversation(userId, "user", `[Inline] ${query}`);
\* saveConversation(userId, "assistant", text)
SaveInline(conv, seq, userId, query, r) ==
    saveConversation(saveConversation(conv, seq, userId, "user", <<"[Inline]">> \o query, 0, 0),
                     seq + 1, userId, "assistant", r.text, 0, 0)

\* what agent.chat resolves to in a handler
HandlerResults ==
    {OkResult(b.text, b.usage.in, b.usage.out) : b \in Bodies}
        \cup {ErrResult(e) : e \in ChatErrors}

Authorized_AnySender(sender) == TRUE
\* bot.use: if (ctx.from?.id !== ALLOWED_ID) return; await next()
Authorized(sender) == StrictEqual(sender, allowedId)

\* what no handler of this section assigns
StoreFrame ==
    UNCHANGED <<retryVars, errPool, provider, pc, toolTurns, requests, messages, fullText,
                totalInputTokens, totalOutputTokens, lastUsage, toolCalls, requested,
                tstate, idx, observations, dispatched, execLog, sumIn, sumOut, allTools,
                backendScript, apiKey, keyVars, clientVars, botVars, streamVars,
                searchVars, cacheVars, jobVars, allowedId, priceVars, sideVars>>

\* the middleware returns without calling next()
Dropped(sender, kind) ==
    /\ upd' = [sender |-> sender, kind |-> kind, args |-> "", text |-> <<>>,
               passed |-> FALSE, outcome |-> "dropped"]
    /\ cmdSeq' = 1 - cmdSeq
    /\ UNCHANGED <<conversations, convSeq, topics, hpc, history, result>>

Entered(sender, kind, args, text, outcome) ==
    /\ upd' = [sender |-> sender, kind |-> kind, args |-> args, text |-> text,
               passed |-> TRUE, outcome |-> outcome]
    /\ cmdSeq' = 1 - cmdSeq

\* bot.command("topic"); the polling loop handles one update at a time
TopicCommand ==
    /\ hpc = "idle"
    /\ \E sender \in Senders, args \in TopicArgs :
        IF ~Authorized(sender) THEN Dropped(sender, "topic")
        ELSE /\ Entered(sender, "topic", args, <<>>, "done")
             /\ IF args = "" THEN UNCHANGED <<topics, conversations>>
                ELSE IF args = "clear"
                THEN /\ topics' = clearActiveTopic(topics, sender)
                     /\ conversations' = clearHistory(conversations, sender)
                ELSE /\ Len(topics) < MaxTopicRows
                     /\ topics' = setActiveTopic(topics, sender, args)
                     /\ conversations' = clearHistory(conversations, sender)
             /\ UNCHANGED <<convSeq, hpc, history, result>>
    /\ StoreFrame

\* bot.command("clear")
ClearCommand ==
    /\ hpc = "idle"
    /\ \E sender \in Senders :
        IF ~Authorized(sender) THEN Dropped(sender, "clear")
        ELSE /\ Entered(sender, "clear", "", <<>>, "done")
             /\ conversations' = clearHistory(conversations, sender)
             /\ topics' = clearActiveTopic(topics, sender)
             /\ UNCHANGED <<convSeq, hpc, history, result>>
    /\ StoreFrame

\* bot.on("message:text") up to await agent.chat(contextPrefix + userMessage, history)
TextMessage ==
    /\ hpc = "idle"
    /\ convSeq + 2 <= MaxRowId
    /\ \E sender \in Senders, userMessage \in UserMessages :
        IF ~Authorized(sender) THEN Dropped(sender, "text")
        ELSE /\ Entered(sender, "text", getActiveTopic(topics, sender), userMessage, "pending")
             /\ history' = getHistory(conversations, sender, HISTORY_LIMIT)
             /\ hpc' = "chat"
             /\ UNCHANGED <<conversations, convSeq, topics, result>>
    /\ StoreFrame

\* agent.chat settles: the two saveConversation calls, or the catch block;
\* the handler returns and its locals are gone
TextReturn ==
    /\ hpc = "chat" /\ upd.kind = "text"
    /\ \/ /\ upd' = [upd EXCEPT !.outcome = "threw"]
          /\ UNCHANGED <<conversations, convSeq, result>>
       \/ \E r \in HandlerResults :
          /\ result' = r
          /\ conversations' = SaveTurn(conversations, convSeq, upd.sender, upd.text, r)
          /\ convSeq' = convSeq + 2
          /\ upd' = [upd EXCEPT !.outcome = "returned"]
    /\ hpc' = "idle"
    /\ history' = <<>>
    /\ UNCHANGED <<topics, cmdSeq>>
    /\ StoreFrame

\* bot.on("inline_query") up to await agent.chat(query, [])
InlineQuery ==
    /\ hpc = "idle"
    /\ convSeq + 2 <= MaxRowId
    /\ \E sender \in Senders, query \in UserMessages \cup {<<>>} :
        IF ~Authorized(sender) THEN Dropped(sender, "inline")
        ELSE IF ~StrictEqual(sender, allowedId) \/ query = <<>>
        THEN /\ Entered(sender, "inline", "", query, "done")
             /\ UNCHANGED <<conversations, convSeq, topics, hpc, history, result>>
        ELSE /\ Entered(sender, "inline", "", query, "pending")
             /\ history' = <<>>
             /\ hpc' = "chat"
             /\ UNCHANGED <<conversations, convSeq, topics, result>>
    /\ StoreFrame

\* agent.chat settles: await ctx.answerInlineQuery, then the two
\* saveConversation calls; the catch block saves nothing
InlineReturn ==
    /\ hpc = "chat" /\ upd.kind = "inline"
    /\ \/ /\ upd' = [upd EXCEPT !.outcome = "threw"]
          /\ UNCHANGED <<conversations, convSeq, result>>
       \/ \E r \in HandlerResults, answered \in BOOLEAN :
          /\ result' = r
          /\ IF answered
             THEN /\ conversations' = SaveInline(conversations, convSeq, upd.sender, upd.text, r)
                  /\ convSeq' = convSeq + 2
                  /\ upd' = [upd EXCEPT !.outcome = "returned"]
             ELSE /\ UNCHANGED <<conversations, convSeq>>
                  /\ upd' = [upd EXCEPT !.outcome = "threw"]
    /\ hpc' = "idle"
    /\ history' = <<>>
    /\ UNCHANGED <<topics, cmdSeq>>
    /\ StoreFrame

\* a fresh database and no update taken yet
DbAtRest ==
    /\ allowedId = AllowedUser
    /\ conversations = <<>> /\ convSeq = 0 /\ topics = <<>>
    /\ hpc = "idle" /\ upd = NoUpdate /\ history = <<>> /\ cmdSeq = 0

\* no turn accounted yet
NoStats == [loop |-> "", tokens |-> 0, cost |-> 0, error |-> FALSE]
PricingAtRest == reported = <<>> /\ account = NoStats

----------------------------------------------------------------------------
\* bot.ts: agent.chat called by the update handler and by the scheduled jobs

\* the long-polling loop, which runs one update handler at a time, and a
\* scheduled job
Procs == {"update", "job"}

JobsAtRest ==
    /\ tpc = [t \in Procs |-> "idle"]
    /\ startedWith = [t \in Procs |-> ""]
    /\ servedBy = [t \in Procs |-> ""]

\* no text turn has replied yet; no reminder was ever set
NoMessageShown == [text |-> <<>>, pending |-> {}, lastUpdate |-> 0, finalIssued |-> FALSE]
SideAtRest ==
    /\ thinkingMsg = NoMessageShown
    /\ reminders = <<>> /\ cronRuns = <<>> /\ delivered = <<>>

StoreAtRest == CacheAtRest /\ JobsAtRest /\ DbAtRest /\ PricingAtRest /\ SideAtRest

\* chat(): if (this.provider === "claude") chatClaude ... else if "openai"
\* chatOpenAI ... else chatGemini
Dispatch(p) == IF p = "claude" THEN "claude" ELSE IF p = "openai" THEN "openai" ELSE "gemini"

\* process t calls agent.chat(...): chat() runs up to its first await
CallChat(t) ==
    /\ tpc' = [tpc EXCEPT ![t] = "entered"]
    /\ startedWith' = [startedWith EXCEPT ![t] = provider']
    /\ servedBy' = [servedBy EXCEPT ![t] = ""]

\* what the turns of this view leave alone
TurnFrame ==
    /\ UNCHANGED <<retryVars, errPool, pc, turnVars, backendScript, streamVars, searchVars,
                   cacheVars, dbVars, priceVars, sideVars>>

\* cron.schedule(..., () => runScheduledTask(...)): the timer fires whatever
\* else is in flight; const { text } = await agent.chat(prompt, [])
JobStart(j) ==
    /\ j # "update" /\ tpc[j] = "idle"
    /\ UNCHANGED <<provider, apiKey, keyVars, clientVars, botVars>>
    /\ CallChat(j)
    /\ TurnFrame

\* bot.on("message:text"): agent.setUserId; in auto mode await determineRoute,
\* otherwise agent.chat at once
UpdateText ==
    /\ tpc["update"] = "idle"
    /\ UNCHANGED <<provider, apiKey, keyVars, clientVars, isAutoRouting, bpc, switchResult,
                   switchSeq, switchArg, wasActive, routeOutcome>>
    /\ IF isAutoRouting
       THEN /\ tpc' = [tpc EXCEPT !["update"] = "routing"]
            /\ routeFrom' = provider
            /\ UNCHANGED <<startedWith, servedBy>>
       ELSE /\ CallChat("update")
            /\ UNCHANGED routeFrom
    /\ TurnFrame

\* determineRoute settles; agent.switchProvider(targetProvider); agent.chat(...)
UpdateRoute ==
    /\ tpc["update"] = "routing"
    /\ \E outcome \in (IF openaiClient = "none" THEN {"noclient"} ELSE RouteOutcomes) :
         /\ SwitchProviderCall(determineRoute(AgentState, outcome))
         /\ routeOutcome' = outcome
    /\ CallChat("update")
    /\ UNCHANGED <<isAutoRouting, bpc, routeFrom>>
    /\ TurnFrame

\* bot.on("message:document"): await agent.chat(prompt, [])
UpdateDocument ==
    /\ tpc["update"] = "idle"
    /\ UNCHANGED <<provider, apiKey, keyVars, clientVars, botVars>>
    /\ CallChat("update")
    /\ TurnFrame

\* bot.command("provider"), between two turns of the update handler
UpdateProviderCommand ==
    /\ tpc["update"] = "idle"
    /\ ProviderCommand

\* chat() of process t resumes after vectorDB.search and getBootstrapContext
\* and calls the provider loop of this.provider
ChatDispatch(t) ==
    /\ tpc[t] = "entered"
    /\ tpc' = [tpc EXCEPT ![t] = "running"]
    /\ servedBy' = [servedBy EXCEPT ![t] = Dispatch(provider)]
    /\ UNCHANGED <<startedWith, provider, apiKey, keyVars, clientVars, botVars>>
    /\ TurnFrame

\* the provider loop of process t returns
ChatReturn(t) ==
    /\ tpc[t] = "running"
    /\ tpc' = [tpc EXCEPT ![t] = "idle"]
    /\ startedWith' = [startedWith EXCEPT ![t] = ""]
    /\ servedBy' = [servedBy EXCEPT ![t] = ""]
    /\ UNCHANGED <<provider, apiKey, keyVars, clientVars, botVars>>
    /\ TurnFrame

----------------------------------------------------------------------------
\* withRetry around a mocked fn that can reject with any error

\* an agent constructed with every key set, the handlers idle
AgentReady(p) ==
    /\ Constructed(p, KeyOf(p), AllKeys)
    /\ BotAtRest /\ StreamAtRest /\ SearchAtRest /\ StoreAtRest

InitRetry ==
    /\ rpc = "calling" /\ attempt = 0 /\ lastError = NoError /\ calls = 0
    /\ sleeps = <<>> /\ thrown = NoError /\ raised = NoError
    /\ errPool = ApiErrors
    /\ ChatAtRest("bench")
    /\ AgentReady("openai") /\ backendScript = <<>>

NextRetry == RetryAttemptOk \/ RetryAttemptFail \/ RetryWake

SpecRetry == InitRetry /\ [][NextRetry]_vars

----------------------------------------------------------------------------
\* handleToolCall called directly, any name and any input

InitTools ==
    /\ RetryIdle /\ errPool = {}
    /\ ChatAtRest("bench")
    /\ AgentReady("openai") /\ backendScript = <<>>

NextTools == ToolBench

SpecTools == InitTools /\ [][NextTools]_vars

----------------------------------------------------------------------------
\* One turn of chat() on any provider, against the mocked backend: free, or
\* scripted to request read_file and then answer "Done"

Init ==
    /\ RetryIdle /\ errPool = ChatErrors
    /\ \E p \in Providers : Constructed(p, KeyOf(p), AllKeys)
    /\ BotAtRest /\ StreamAtRest /\ StoreAtRest
    /\ message = <<"hi">> /\ searchCalls = <<>> /\ hits = NoHits
    /\ sortedResults = <<>> /\ contextPrefix = <<>> /\ enrichedMessage = NoMessage
    /\ backendScript \in {<<>>, ReadThenDone}
    /\ pc = "enter"
    /\ LocalsAtStart

Next ==
    \/ AutoSearch
    \/ IssueRequest
    \/ RetryAttemptOk
    \/ RetryAttemptFail
    \/ RetryWake
    \/ ReceiveResponse
    \/ CatchBackendError
    \/ SeqToolStart
    \/ SeqToolFinish
    \/ GeminiDispatch
    \/ GeminiFinish
    \/ ToolsDone
    \/ LoopExit

Spec == Init /\ [][Next]_vars

----------------------------------------------------------------------------
\* The bot with its agent: any environment, /provider commands and text and
\* photo messages, one handler at a time

ModelProviders == {"auto", "claude", "gemini", "openai"}

\* let isAutoRouting = (process.env.MODEL_PROVIDER || "auto") === "auto";
\* initEngine(): initialProvider, apiKey, new OpenClawAgent(...)
InitEngine(modelProvider, env) ==
    LET initialProvider == IF modelProvider = "auto" THEN "openai" ELSE modelProvider
    IN /\ isAutoRouting = (modelProvider = "auto")
       /\ Constructed(initialProvider, EnvValue(env, initialProvider), env)

InitSwitch ==
    /\ \E modelProvider \in ModelProviders, env \in Envs : InitEngine(modelProvider, env)
    /\ bpc = "idle" /\ switchResult = NoSwitch /\ switchSeq = 0 /\ switchArg = ""
    /\ wasActive = <<"", "">>
    /\ routeFrom = "openai" /\ routeOutcome = "none"
    /\ RetryIdle /\ errPool = ChatErrors
    /\ backendScript \in {PlainDone, ReadThenDone}
    /\ StreamAtRest /\ StoreAtRest
    /\ message = <<"hi">> /\ searchCalls = <<>> /\ hits = NoHits
    /\ sortedResults = <<>> /\ contextPrefix = <<>> /\ enrichedMessage = NoMessage
    /\ pc = "idle"
    /\ LocalsAtStart

NextSwitch ==
    \/ ProviderCommand
    \/ TextBegin
    \/ RouteSettle
    \/ TurnEnd
    \/ ChatWithImage
    \/ AutoSearch
    \/ IssueRequest
    \/ GeminiNoClient
    \/ RetryAttemptOk
    \/ RetryAttemptFail
    \/ RetryWake
    \/ ReceiveResponse
    \/ CatchBackendError
    \/ SeqToolStart
    \/ SeqToolFinish
    \/ GeminiDispatch
    \/ GeminiFinish
    \/ ToolsDone

SpecSwitch == InitSwitch /\ [][NextSwitch]_vars

----------------------------------------------------------------------------
\* One streamed response on any provider, after an earlier response or not

InitStream ==
    /\ RetryIdle /\ errPool = {}
    /\ \E p \in Providers : Constructed(p, KeyOf(p), AllKeys)
    /\ pc = "stream" /\ toolTurns = 0 /\ requests = 1
    /\ messages = << <<"user">> >> /\ fullText \in {<<>>, <<"old">>}
    /\ totalInputTokens = 0 /\ totalOutputTokens = 0
    /\ lastUsage = [in |-> 0, out |-> 0]
    /\ toolCalls = <<>> /\ requested = <<>> /\ tstate = <<>> /\ idx = 1
    /\ observations = <<>> /\ dispatched = <<>> /\ execLog = {}
    /\ result = NoResult /\ sumIn = 0 /\ sumOut = 0 /\ allTools = TRUE
    /\ BotAtRest /\ SearchAtRest /\ StoreAtRest /\ backendScript = <<>>
    /\ events \in EventSeqs /\ epos = 0 /\ sink = <<>>

NextStream == StreamStart \/ StreamChunk

SpecStream == InitStream /\ [][NextStream]_vars

----------------------------------------------------------------------------
\* chat() from its entry to the first backend request: any message with a
\* search that fails or finds nothing or one result, or one topical message
\* with any result list

TopicalMessage == <<"https://example.com/a/report.pdf", "AI">>
FewHits ==
    {NoHits, [throws |-> TRUE, results |-> <<>>],
     [throws |-> FALSE,
      results |-> << [filePath |-> <<"notes", "memo.md">>, score |-> 90] >>]}

\* vectorDB.search(query, 10) answering more results than the digest holds,
\* of score 0.2 or 0.5
LongLen == 7
LongHitLists == [1..LongLen -> [filePath : Paths, score : {20, 50}]]

InitSearch ==
    /\ RetryIdle /\ errPool = ChatErrors
    /\ \E p \in Providers : Constructed(p, KeyOf(p), AllKeys)
    /\ BotAtRest /\ StreamAtRest /\ StoreAtRest /\ backendScript = <<>>
    /\ \/ message \in MessagesUpTo(MaxWords) /\ hits \in FewHits
       \/ /\ message = TopicalMessage
          /\ hits \in [throws : {FALSE}, results : HitListsUpTo(MaxHits) \cup LongHitLists]
    /\ searchCalls = <<>> /\ sortedResults = <<>> /\ contextPrefix = <<>>
    /\ enrichedMessage = NoMessage
    /\ pc = "enter"
    /\ LocalsAtStart

NextSearch == AutoSearch \/ IssueRequest

SpecSearch == InitSearch /\ [][NextSearch]_vars

----------------------------------------------------------------------------
\* One turn against a backend that answers by a script, where a request can
\* fail when it is opened and while its stream is consumed

InitRequest ==
    /\ RetryIdle /\ errPool = ChatErrors
    /\ \E p \in Providers : Constructed(p, KeyOf(p), AllKeys)
    /\ BotAtRest /\ StreamAtRest /\ StoreAtRest
    /\ message = <<"hi">> /\ searchCalls = <<>> /\ hits = NoHits
    /\ sortedResults = <<>> /\ contextPrefix = <<>> /\ enrichedMessage = NoMessage
    /\ backendScript \in {PlainDone, ReadThenDone}
    /\ pc = "enter"
    /\ LocalsAtStart

NextRequest ==
    \/ AutoSearch
    \/ IssueRequest
    \/ RetryAttemptOk
    \/ RetryAttemptFail
    \/ RetryWake
    \/ ReceiveResponse
    \/ StreamError
    \/ CatchBackendError
    \/ SeqToolStart
    \/ SeqToolFinish
    \/ GeminiDispatch
    \/ GeminiFinish
    \/ ToolsDone

SpecRequest == InitRequest /\ [][NextRequest]_vars

----------------------------------------------------------------------------
\* The context cache over time: getGraphSchema calls, /buildgraph commands
\* and the clock

InitCache ==
    /\ RetryIdle /\ errPool = {}
    /\ ChatAtRest("idle")
    /\ Constructed("openai", KeyOf("openai"), AllKeys)
    /\ BotAtRest /\ StreamAtRest /\ SearchAtRest /\ backendScript = <<>>
    /\ JobsAtRest /\ DbAtRest /\ PricingAtRest /\ SideAtRest
    /\ schemaCache = NoSchema /\ lastSchemaUpdate = 0
    /\ now = 0 /\ graphDocs \in 0..MaxDocs
    /\ schemaServed = NothingServed /\ schemaQueried = FALSE
    /\ schemaCalls = 0 /\ invalidations = 0

NextCache == GetGraphSchema \/ BuildGraphCommand \/ Tick

SpecCache == InitCache /\ [][NextCache]_vars

----------------------------------------------------------------------------
\* The update handlers over the database: /topic, /clear, text messages and
\* inline queries, from the allowed user and from others. The database file
\* outlives the process, so a run may start with rows of an earlier
\* ALLOWED_USER_ID.

PriorRows ==
    << [id |-> 1, user_id |-> OtherUser, role |-> "assistant", content |-> <<"Done">>,
        tokens |-> 700, cost |-> 3] >>
PriorTopics == << [user_id |-> OtherUser, topic_name |-> "ai", is_active |-> 1] >>

InitStore ==
    /\ RetryIdle /\ errPool = {}
    /\ ChatAtRest("idle")
    /\ Constructed("openai", KeyOf("openai"), AllKeys)
    /\ BotAtRest /\ StreamAtRest /\ SearchAtRest /\ backendScript = <<>>
    /\ CacheAtRest /\ JobsAtRest /\ PricingAtRest /\ SideAtRest
    /\ allowedId \in AllowedIds
    /\ \E prior \in BOOLEAN :
        /\ conversations = IF prior THEN PriorRows ELSE <<>>
        /\ convSeq = IF prior THEN 1 ELSE 0
        /\ topics = IF prior THEN PriorTopics ELSE <<>>
    /\ hpc = "idle" /\ upd = NoUpdate /\ history = <<>> /\ cmdSeq = 0

NextStore ==
    \/ TopicCommand
    \/ ClearCommand
    \/ TextMessage
    \/ TextReturn
    \/ InlineQuery
    \/ InlineReturn

SpecStore == InitStore /\ [][NextStore]_vars

----------------------------------------------------------------------------
\* The accounting at the end of chatOpenAI, chatClaude and chatGemini, as a
\* function of this.provider and of the usage the responses carried

MaxResponses == 3
\* process.env.MODEL_PROVIDER as Provider: the cast checks nothing
EnvProviders == Providers \cup {"grok"}
\* chunk.usage / event.message.usage / usageMetadata of one response, which
\* may be absent
NoUsage == [present |-> FALSE, in |-> 0, out |-> 0]
UsageReports ==
    {NoUsage} \cup {[present |-> TRUE, in |-> b.usage.in, out |-> b.usage.out] : b \in Bodies}
ReportsUpTo(n) == UNION {[1..k -> UsageReports] : k \in 1..n}

\* if (chunk.usage) { totalInputTokens += chunk.usage.prompt_tokens; ... }
RECURSIVE Accumulated(_, _)
Accumulated(rs, field) ==
    IF rs = <<>> THEN 0
    ELSE (IF rs[1].present THEN rs[1][field] ELSE 0) + Accumulated(Tail(rs), field)

\* usage?.promptTokenCount || 0 of (await result.response).usageMetadata
LastReported(rs, field) ==
    IF rs[Len(rs)].present THEN rs[Len(rs)][field] ELSE 0

\* the loop chat() dispatches to computes tokens and cost from its own
\* INPUT_PRICE, OUTPUT_PRICE and KRW_RATE; none of the three raises
Account(p, rs) ==
    LET loop == Dispatch(p)
        inputTokens == IF loop = "gemini" THEN LastReported(rs, "in")
                       ELSE Accumulated(rs, "in")
        outputTokens == IF loop = "gemini" THEN LastReported(rs, "out")
                        ELSE Accumulated(rs, "out")
    IN  [loop |-> loop, tokens |-> inputTokens + outputTokens,
         cost |-> Cost(loop, inputTokens, outputTokens), error |-> FALSE]

\* return { text: fullText, stats, tokens, cost }
AccountTurn ==
    /\ pc = "idle"
    /\ account' = Account(provider, reported)
    /\ pc' = "done"
    /\ UNCHANGED <<retryVars, errPool, provider, turnVars, backendScript, apiKey, keyVars, clientVars,
                   botVars, streamVars, searchVars, cacheVars, jobVars, dbVars, reported, sideVars>>

----------------------------------------------------------------------------
\* One accounted turn for every MODEL_PROVIDER and every usage report

\* initialProvider === "claude" ? ANTHROPIC_API_KEY :
\* initialProvider === "openai" ? OPENAI_API_KEY : GOOGLE_API_KEY
InitialKey(initialProvider) ==
    IF initialProvider = "claude" THEN KeyOf("claude")
    ELSE IF initialProvider = "openai" THEN KeyOf("openai") ELSE KeyOf("gemini")

InitPricing ==
    /\ RetryIdle /\ errPool = {}
    /\ pc = "idle" /\ LocalsAtStart
    /\ \E modelProvider \in EnvProviders :
        Constructed(modelProvider, InitialKey(modelProvider), AllKeys)
    /\ BotAtRest /\ StreamAtRest /\ SearchAtRest /\ backendScript = <<>>
    /\ CacheAtRest /\ JobsAtRest /\ DbAtRest /\ SideAtRest
    /\ reported \in ReportsUpTo(MaxResponses)
    /\ account = NoStats

NextPricing == AccountTurn

SpecPricing == InitPricing /\ [][NextPricing]_vars

----------------------------------------------------------------------------
\* The turns of the update handler and of a scheduled job, interleaved at
\* the awaits of the handlers and of chat()

InitTurns ==
    /\ \E modelProvider \in ModelProviders : InitEngine(modelProvider, AllKeys)
    /\ bpc = "idle" /\ switchResult = NoSwitch /\ switchSeq = 0 /\ switchArg = ""
    /\ wasActive = <<"", "">>
    /\ routeFrom = "openai" /\ routeOutcome = "none"
    /\ RetryIdle /\ errPool = {}
    /\ pc = "idle" /\ LocalsAtStart
    /\ backendScript = <<>>
    /\ StreamAtRest /\ SearchAtRest /\ StoreAtRest

NextTurns ==
    \/ \E j \in Procs : JobStart(j)
    \/ UpdateText
    \/ UpdateRoute
    \/ UpdateDocument
    \/ UpdateProviderCommand
    \/ \E t \in Procs : ChatDispatch(t)
    \/ \E t \in Procs : ChatReturn(t)

SpecTurns == InitTurns /\ [][NextTurns]_vars

----------------------------------------------------------------------------
\* Claims about withRetry (checked under SpecRetry)

\* the retryable class as the specification words it
RetryableBySpec(e) ==
    \/ e.status \in {429, 500, 503}
    \/ \E i \in 1..Len(e.message) : e.message[i] = "overloaded"
    \/ \E i \in 1..(Len(e.message) - 1) :
         e.message[i] = "rate" /\ e.message[i + 1] = "limit"

\* C8: withRetry sleeps and calls again only after an error whose status is
\* 429, 500 or 503 or whose message contains "overloaded" or "rate limit";
\* any other error ends the invocation at the attempt that raised it, with
\* no sleep and no further call (at the first attempt: one call, no sleep).
C8_RetryOnlyRetryable ==
    /\ rpc = "sleeping" => RetryableBySpec(lastError)
    /\ (raised # NoError /\ ~RetryableBySpec(raised)) =>
          /\ rpc = "thrown"
          /\ calls = raised.id
          /\ Len(sleeps) = raised.id - 1
          /\ (raised.id = 1 => calls = 1 /\ sleeps = <<>>)

C8_Witness ==
    /\ rpc = "thrown" /\ raised.status = 400 /\ raised.message = <<"bad">>
    /\ calls = 1 /\ sleeps = <<>>

\* C9: two retryable failures followed by a success give success after
\* exactly three attempts and exactly two sleeps, 1000 ms then 3000 ms;
\* withRetry never makes more than 3 attempts.
C9_RetrySchedule ==
    /\ calls <= 3
    /\ (rpc = "returned" /\ raised.id = 2) =>
          calls = 3 /\ sleeps = <<1000, 3000>>

C9_Witness ==
    /\ rpc = "returned" /\ raised.id = 2 /\ raised.status = 429 /\ calls = 3

\* C10: when every attempt failed with a retryable error, the value thrown
\* by withRetry is the very error the last attempt raised: same identity,
\* status and message, not a wrapper.
C10_RethrowUnchanged ==
    (rpc = "thrown" /\ calls = 3 /\ RetryableBySpec(raised)) => thrown = raised

C10_Witness ==
    /\ rpc = "thrown" /\ calls = 3 /\ raised.status = 503
    /\ thrown.status = 503 /\ thrown.id = 3

----------------------------------------------------------------------------
\* Claims about the provider loops (checked under Spec)

Count(seq, x) == Cardinality({j \in 1..Len(seq) : seq[j] = x})
ObsCount(id) == Cardinality({j \in 1..Len(observations) : observations[j].id = id})
\* the value a tool-result message carries, as an object
PayloadOf(o) == IF provider = "gemini" THEN o.content ELSE o.content[2]

\* C1: with a backend that asks for a tool in every response, a turn issues
\* exactly 5 backend requests and never a sixth, on every provider.
C1_LoopCeiling ==
    /\ requests <= 5
    /\ (pc = "done" /\ result.kind = "ok" /\ allTools) => requests = 5

\* C2: when the tool work of an iteration is over and the next request is
\* about to be issued, every tool call the response contained has been
\* handed to handleToolCall exactly once and has exactly one tool result.
C2_EachCallResolvedOnce ==
    pc = "loop" =>
        \A i \in 1..Len(requested) :
            /\ Count(dispatched, requested[i].id) = 1
            /\ ObsCount(requested[i].id) = 1

\* C3: the tool calls of one response run concurrently on every provider:
\* no handler has completed while another call of the response is still
\* waiting to be started.
C3_ConcurrentDispatch ==
    pc = "tools" =>
        ((\E i \in 1..Len(tstate) : tstate[i] = "done")
            => \A j \in 1..Len(tstate) : tstate[j] # "pending")

\* C4: the input and output token totals of a successful turn are the sums
\* of the counts every response of the turn reported.
C4_UsageSummed ==
    (pc = "done" /\ result.kind = "ok") =>
        result.inTokens = sumIn /\ result.outTokens = sumOut

\* C5: a tool call whose argument text is not JSON never makes chat()
\* return an error result for the whole turn.
C5_MalformedArgsConfined ==
    ~(pc = "done" /\ result.kind = "error" /\ result.err.name = "SyntaxError")

----------------------------------------------------------------------------
\* Claims about the dispatcher alone (checked under SpecTools)

\* C7: run_script hands a script to exec only when scriptName equals
\* run_scraper.sh or run_tracker.sh; any other name gives
\* {error: "Unauthorized"} and starts nothing.
C7_RunScriptAllowList ==
    /\ execLog \subseteq {<<"run_scraper.sh">>, <<"run_tracker.sh">>}
    /\ \A i \in 1..Len(observations) :
         LET o == observations[i]
             listed == o.input.scriptName \in {<<"run_scraper.sh">>, <<"run_tracker.sh">>}
         IN (o.name = "run_script" /\ ~o.threw) =>
              /\ listed => /\ o.input.scriptName \in execLog
                           /\ o.content[2] = [kind |-> "ok", body |-> <<"Started">>]
              /\ ~listed => o.content[2] = [kind |-> "error", body |-> <<"Unauthorized">>]

C7_Witness ==
    /\ Len(dispatched) = 2 /\ execLog = {<<"run_tracker.sh">>}
    /\ observations[1].name = "run_script"
    /\ observations[1].input.scriptName = <<"run_tracker.sh", ";id">>
    /\ observations[1].content[2].body = <<"Unauthorized">>

----------------------------------------------------------------------------
\* Claims about provider switching and routing (checked under SpecSwitch)

\* the credential stored for provider p; a name that is no provider has none
StoredKey(p) ==
    CASE p = "claude" -> claudeApiKey
      [] p = "gemini" -> geminiApiKey
      [] p = "openai" -> openaiApiKey
      [] OTHER -> ""
ActiveFields == <<provider, apiKey, claudeClient, geminiClient, openaiClient>>
SwitchCalled == switchSeq' # switchSeq

\* C11: switchProvider(p) for a provider p without a stored credential
\* returns success:false and leaves the active provider, the active apiKey
\* and the client instances as they were; every call either ends with p
\* active, its credential the active apiKey and its client present, or
\* changes none of these.
C11_SwitchRejectsMissingKey ==
    [][SwitchCalled =>
         LET p == switchArg'
         IN /\ StoredKey(p) = "" =>
                 (switchResult'.success = FALSE /\ UNCHANGED ActiveFields)
            /\ \/ /\ switchResult'.success
                  /\ provider' = p /\ StoredKey(p) # "" /\ apiKey' = StoredKey(p)
                  /\ p = "claude" => claudeClient' # "none"
                  /\ p = "gemini" => geminiClient' # "none"
                  /\ p = "openai" => openaiClient' # "none"
               \/ UNCHANGED ActiveFields]_vars

C13_OnlySwitchAssigns ==
    [][(provider' # provider \/ apiKey' # apiKey) => SwitchCalled]_vars

\* a routed turn with a tool call has ended on the provider it began on
C13_Witness ==
    /\ bpc = "chat" /\ pc = "done" /\ result.kind = "ok" /\ requests = 2
    /\ routeOutcome = "simple" /\ provider = "openai" /\ apiKey = "sk-oai"
    /\ \E i \in 1..Len(messages) : messages[i][1] = "tool"

\* C14: in auto mode, when the classification call throws or there is no
\* classifier client, the active provider after routing is the one before
\* routing and chat() is called for the turn.
C14_RoutingFailsOpen ==
    routeOutcome \in {"throw", "noclient"} =>
        /\ provider = routeFrom
        /\ bpc = "chat" /\ pc \in {"enter", "loop", "awaiting", "tools", "done"}

\* the classification threw while Claude was active; the turn was answered
C14_Witness ==
    /\ routeOutcome = "throw" /\ routeFrom = "claude" /\ provider = "claude"
    /\ isAutoRouting /\ pc = "done" /\ result.kind = "ok"

----------------------------------------------------------------------------
\* Claims about how a turn ends (checked under Spec)

\* C15: when withRetry gives up on a backend request, in whatever iteration
\* of the loop, chat() does not throw: it returns the error result whose
\* text is "Error: " followed by the message of the error the backend
\* rejected with, with tokens = 0 and cost = 0.
C15_BackendFailureIsErrorResult ==
    /\ rpc = "thrown" => pc \in {"awaiting", "done"}
    /\ (pc = "done" /\ rpc = "thrown") =>
          /\ result.kind = "error"
          /\ result.text = <<"Error: ">> \o raised.message
          /\ result.tokens = 0 /\ result.cost = 0

\* the third request of a turn failed after three attempts
C15_Witness ==
    /\ pc = "done" /\ rpc = "thrown" /\ calls = 3 /\ requests = 3
    /\ totalInputTokens > 0 /\ result.kind = "error"
    /\ result.text = <<"Error: ", "rate", "limit">>

ToolResultAppended(id) ==
    \E i \in 1..Len(messages) :
        \/ messages[i][1] \in {"tool", "tool_result"} /\ messages[i][2] = id
        \/ messages[i][1] = "functionResponses" /\ messages[i][2] = <<id>>

\* C16: a response without a tool call ends the turn and its text is the
\* answer; when the backend first requests read_file and then answers
\* "Done", the tool result is appended, exactly two requests are issued and
\* the answer is "Done".
C16_FirstPlainResponseIsAnswer ==
    /\ ~allTools =>
          /\ pc = "done" /\ requested = <<>>
          /\ result.kind = "ok" /\ result.text = fullText
    /\ backendScript = ReadThenDone =>
          /\ requests <= 2
          /\ (pc = "done" /\ rpc = "idle") =>
                /\ requests = 2
                /\ result.kind = "ok" /\ result.text = <<"Done">>
                /\ ToolResultAppended(<<1, 1>>)

\* the read_file scenario has ended on Claude
C16_Witness ==
    /\ backendScript = ReadThenDone /\ provider = "claude"
    /\ pc = "done" /\ requests = 2 /\ ~allTools
    /\ result.text = <<"Done">> /\ ToolResultAppended(<<1, 1>>)

\* C17: when the iteration ceiling is reached (MAX_TOOL_TURNS iterations
\* have run their tools), chat() returns next, with a normal result: the
\* text of the latest response, and as tokens and cost the usage of all
\* responses of the turn.
C17_CeilingReturnsNormally ==
    [][(pc = "loop" /\ requests >= MAX_TOOL_TURNS) =>
          /\ pc' = "done"
          /\ result'.kind = "ok" /\ result'.text = fullText
          /\ result'.inTokens = sumIn /\ result'.outTokens = sumOut
          /\ result'.tokens = sumIn + sumOut
          /\ result'.cost = Cost(provider, sumIn, sumOut)]_vars

----------------------------------------------------------------------------
\* Claims about streaming (checked under SpecStream)

IsPrefix(a, b) == Len(a) <= Len(b) /\ SubSeq(b, 1, Len(a)) = a
RECURSIVE Concat(_)
Concat(ds) == IF Len(ds) = 0 THEN <<>> ELSE Head(ds) \o Concat(Tail(ds))

\* C18: within one response every value passed to the sink is the text
\* received so far: each value has the value passed before it as a prefix
\* and is the concatenation of the deltas consumed so far, and when the
\* stream has ended the last value passed is the whole text of the response.
C18_SinkCumulative ==
    pc = "stream" =>
        /\ \A i \in 2..Len(sink) : IsPrefix(sink[i - 1], sink[i])
        /\ (epos >= 1 /\ sink # <<>>) =>
              sink[Len(sink)] = Concat(SubSeq(events, 1, epos - 1))
        /\ (epos > Len(events) /\ sink # <<>>) => sink[Len(sink)] = Concat(events)

\* an OpenAI response of three deltas, one of them empty, has been consumed
C18_Witness ==
    /\ pc = "stream" /\ provider = "openai"
    /\ Len(events) = 3 /\ epos = 4
    /\ sink = << <<"a">>, <<"a", "b">> >>

----------------------------------------------------------------------------
\* Claims about the auto-search (checked under SpecSearch)

Topical(m) == \E i \in 1..Len(m) : MatchesPattern(m[i])

\* C19: a message shorter than 30 characters never causes a call of
\* vectorDB.search, and for every message of 30 characters or more that
\* matches a topical pattern vectorDB.search has been called by the time
\* chat() goes on to the backend request.
C19_SearchTrigger ==
    /\ MessageLength(message) < 30 => searchCalls = <<>>
    /\ (MessageLength(message) >= 30 /\ Topical(message) /\ pc # "enter") =>
          Len(searchCalls) = 1

OnTrackerPath(path) == \E i \in 1..Len(path) : path[i] = "tracker"

\* C20: in the digest every starred (tracker / portfolio) result stands
\* before every other result whatever the scores, results of equal priority
\* stand in descending score order, and the digest lines are the lines of
\* the search results that passed the score filter.
C20_DigestOrder ==
    /\ Len(contextPrefix) = Len(sortedResults)
    /\ \A i \in 1..Len(contextPrefix) :
          /\ contextPrefix[i].mark = "star" <=> OnTrackerPath(sortedResults[i].filePath)
          /\ sortedResults[i].score > 20
          /\ \E k \in 1..Len(hits.results) : hits.results[k] = sortedResults[i]
    /\ \A i, j \in 1..Len(contextPrefix) :
          i < j =>
            /\ ~(contextPrefix[i].mark = "bullet" /\ contextPrefix[j].mark = "star")
            /\ contextPrefix[i].mark = contextPrefix[j].mark =>
                  sortedResults[i].score >= sortedResults[j].score
    /\ (pc # "enter" /\ Len(searchCalls) = 1 /\ ~hits.throws) =>
          LET passed == Cardinality({k \in 1..Len(hits.results) :
                                        hits.results[k].score > 20})
          IN Len(sortedResults) = IF passed < 5 THEN passed ELSE 5

\* a tracker result of score 0.5 stands before a note of score 0.9, which
\* stands before a note of score 0.5; the search answered them in reverse
C20_Witness ==
    /\ Len(contextPrefix) = 3
    /\ contextPrefix[1].mark = "star" /\ sortedResults[1].score = 50
    /\ contextPrefix[2].mark = "bullet" /\ sortedResults[2].score = 90
    /\ contextPrefix[3].mark = "bullet" /\ sortedResults[3].score = 50
    /\ hits.results[1].score = 50 /\ hits.results[2].score = 90
    /\ OnTrackerPath(hits.results[3].filePath)

----------------------------------------------------------------------------
\* Claims about the auto-search failing (checked under SpecSearch)

\* the search threw, or no result it answered passes the 0.2 threshold
NoUsableResult(h) == h.throws \/ \A i \in 1..Len(h.results) : h.results[i].score <= 20

\* C21: when the vector search throws or yields no usable result, chat()
\* goes on to the provider loop with exactly the original user message, and
\* no error result is produced
C21_RetrievalFailureDegrades ==
    (pc # "enter" /\ NoUsableResult(hits)) =>
        /\ pc \in {"loop", "awaiting"}
        /\ enrichedMessage = << [part |-> "message", lines |-> <<>>, words |-> message] >>
        /\ contextPrefix = <<>>
        /\ result.kind # "error"

\* a search was made and threw, and the request went out to the backend
C21_Witness ==
    /\ searchCalls # <<>> /\ hits.throws
    /\ pc = "awaiting" /\ requests = 1
    /\ enrichedMessage = <<MessagePart(message)>>

----------------------------------------------------------------------------
\* Claims about the context cache (checked under SpecCache)

\* a digest is cached and less than 5 minutes old
WithinTtl == schemaCache.cached /\ now - lastSchemaUpdate < 5 * 60 * 1000

\* C22: a getGraphSchema call queries the graph backend exactly when no
\* digest is cached or the cached one is at least 5 minutes old; within the
\* TTL it resolves with the cached digest and leaves the cache alone; the
\* cache is dropped only by invalidate(), and once dropped the next call
\* queries whatever the clock says
C22_SchemaCacheTtl ==
    [][ /\ (schemaCalls' # schemaCalls) =>
              /\ schemaQueried' <=> ~WithinTtl
              /\ WithinTtl =>
                    /\ schemaServed' = <<"Graph Schema", schemaCache.documents>>
                    /\ schemaCache' = schemaCache
                    /\ lastSchemaUpdate' = lastSchemaUpdate
        /\ (schemaCache.cached /\ ~schemaCache'.cached) => invalidations' # invalidations
        /\ (invalidations' # invalidations) => ~schemaCache'.cached
      ]_vars

\* after an invalidation and a refresh, a later call within the TTL was
\* served from the cache although the graph has changed since
C22_Witness ==
    /\ invalidations = 1
    /\ schemaCache.cached /\ ~schemaQueried
    /\ schemaServed = formatSchema(schemaCache)
    /\ now - lastSchemaUpdate > 0 /\ now - lastSchemaUpdate < schemaCacheExpiry
    /\ graphDocs # schemaCache.documents

----------------------------------------------------------------------------
\* Claims about concurrent turns (checked under SpecTurns)

InChat(t) == tpc[t] \in {"entered", "running"}

\* C23: the provider loop that serves a turn is the one of the provider
\* that was active when the turn's agent.chat call was made, whatever
\* switchProvider calls happen while the turn is in flight
C23_TurnKeepsProvider ==
    \A t \in Procs : tpc[t] = "running" => servedBy[t] = startedWith[t]

\* C24: at most one agent.chat call is in flight at any time (every turn is
\* for the one allowed user)
C24_TurnsSerialized ==
    \A t, u \in Procs : (InChat(t) /\ InChat(u)) => t = u

----------------------------------------------------------------------------
\* Topics and conversation records (SpecStore)

Users == {AllowedUser, OtherUser}
ActiveTopics(tp, u) ==
    LET Active(r) == r.user_id = u /\ r.is_active = 1 IN Len(SelectSeq(tp, Active))
\* the update just taken went through the middleware into handler kind
Handled(kind) == cmdSeq' # cmdSeq /\ upd'.passed /\ upd'.kind = kind
SetsTopic == Handled("topic") /\ upd'.args \in TopicNames
ClearsTopic == Handled("clear") \/ (Handled("topic") /\ upd'.args = "clear")

\* C25: whatever setActiveTopic and clearActiveTopic calls the handlers
\* have made, no user has two topic rows with is_active = 1; after a
\* setActiveTopic call getActiveTopic returns the name just set, after a
\* clearActiveTopic call it returns null, every other step leaves its answer
\* alone, and a call for one user never changes the answer for another.
C25_OneActiveTopic ==
    [][/\ \A u \in Users : ActiveTopics(topics', u) <= 1
       /\ SetsTopic => getActiveTopic(topics', upd'.sender) = upd'.args
       /\ ClearsTopic => getActiveTopic(topics', upd'.sender) = Null
       /\ \A u \in Users :
            (~((SetsTopic \/ ClearsTopic) /\ upd'.sender = u))
                => getActiveTopic(topics', u) = getActiveTopic(topics, u)]_vars

\* a second topic was set over a first one, which is now inactive, next to
\* the active topic of another user
C25_Witness ==
    /\ upd.kind = "topic" /\ upd.passed /\ upd.args = "hbm"
    /\ Len(RowsOf(topics, AllowedUser)) = 2
    /\ RowsOf(topics, AllowedUser)[1].topic_name = "ai"
    /\ RowsOf(topics, AllowedUser)[1].is_active = 0
    /\ getActiveTopic(topics, AllowedUser) = "hbm"
    /\ getActiveTopic(topics, OtherUser) = "ai"

\* C26: a /topic <name> or /topic clear command leaves the sender with an
\* empty history for the next turn, and leaves every stored conversation
\* record and the token and cost totals summed from them as they were.
C26_TopicSwitchKeepsRecords ==
    [][(Handled("topic") /\ upd'.args # "")
        => /\ getHistory(conversations', upd'.sender, HISTORY_LIMIT) = <<>>
           /\ conversations' = conversations
           /\ getTodayCost(conversations', upd'.sender)
                = getTodayCost(conversations, upd'.sender)]_vars

TextSettles(outcome) ==
    hpc = "chat" /\ upd.kind = "text" /\ hpc' = "idle" /\ upd'.outcome = outcome
SameRecords(before, after) ==
    \A i \in 1..Len(before), j \in 1..Len(after) :
        before[i].id = after[j].id => before[i] = after[j]

\* C27: when agent.chat returns for a text message, the handler appends
\* one user record with the message and then one assistant record with the
\* answer, its tokens and its cost, and nothing else; it appends nothing
\* before the answer is there, and nothing when agent.chat throws; no step
\* changes the content of a record that is still stored.
C27_TurnRecords ==
    [][/\ TextSettles("returned")
            => conversations' = conversations \o
                << [id |-> convSeq + 1, user_id |-> upd.sender, role |-> "user",
                    content |-> upd.text, tokens |-> 0, cost |-> 0],
                   [id |-> convSeq + 2, user_id |-> upd.sender, role |-> "assistant",
                    content |-> result'.text, tokens |-> result'.tokens,
                    cost |-> result'.cost] >>
       /\ TextSettles("threw") => conversations' = conversations
       /\ Handled("text") => conversations' = conversations
       /\ SameRecords(conversations, conversations')]_vars

\* a second text turn has completed with an answer that cost something
C27_Witness ==
    /\ upd.kind = "text" /\ upd.outcome = "returned" /\ result.kind = "ok"
    /\ Len(conversations) = 4
    /\ conversations[3].role = "user" /\ conversations[3].content = upd.text
    /\ conversations[4].role = "assistant" /\ conversations[4].cost > 0

\* C30: an update whose sender is not ALLOWED_ID, or which has no sender,
\* starts no handler: no agent.chat call begins and no row of conversations
\* or topics is written or deleted.
C30_OnlyAllowedSender ==
    [][(cmdSeq' # cmdSeq /\ ~StrictEqual(upd'.sender, allowedId))
        => /\ ~upd'.passed
           /\ UNCHANGED <<conversations, convSeq, topics, hpc, history, result>>]_vars

\* a text message of another user was dropped after the allowed user had
\* completed a turn
C30_Witness ==
    /\ allowedId = AllowedUser
    /\ upd.sender = OtherUser /\ upd.kind = "text" /\ upd.outcome = "dropped"
    /\ Len(RowsOf(conversations, AllowedUser)) >= 2
    /\ RowsOf(conversations, OtherUser) = <<>>


----------------------------------------------------------------------------
\* Cost accounting (Spec, SpecPricing)

\* price per 1M input and output tokens in thousandths of a dollar
PriceList ==
    [claude |-> [input |-> 3000, output |-> 15000],
     openai |-> [input |-> 150, output |-> 600],
     gemini |-> [input |-> 75, output |-> 300]]
\* c tenths of a won is the amount for inTok and outTok tokens of provider
\* p at 1450 won a dollar, rounded to one decimal
IsRoundedCost(c, p, inTok, outTok) ==
    LET scaled == (inTok * PriceList[p].input + outTok * PriceList[p].output) * 29
    IN  2000000 * c <= scaled + 1000000 /\ scaled + 1000000 < 2000000 * (c + 1)

\* C28: the cost a successful turn reports is the price of all the input
\* and output tokens the responses of the turn reported, at the prices of
\* the provider that served it and 1450 won a dollar, rounded to one
\* decimal; the token count it reports is the sum of those input and output
\* tokens.
C28_CostFromTotals ==
    (pc = "done" /\ result.kind = "ok") =>
        /\ result.tokens = sumIn + sumOut
        /\ IsRoundedCost(result.cost, provider, sumIn, sumOut)

PricedProviders == {"claude", "gemini", "openai"}

\* C29: a turn accounted for a provider that has no prices ends in an
\* error instead of a token count and a cost.
C29_UnpricedFailsLoudly ==
    (pc = "done" /\ provider \notin PricedProviders) => account.error


----------------------------------------------------------------------------
\* bot.ts: the placeholder message of a text turn.  The handler replies with
\* a placeholder, hands agent.chat an onChunk callback that edits it, and
\* edits it once more when agent.chat has returned.  An edit is a request to
\* Telegram: it is in flight from the call of editMessageText until Telegram
\* has applied it, and requests in flight are applied in any order.

Placeholder == [kind |-> "placeholder", body |-> <<>>]
\* `${textToHtml(chunk)}\n\n⏳ 작성 중...`
ProgressEdit(chunk) == [kind |-> "progress", body |-> chunk]
\* `${textToHtml(text)}\n\n<code>${stats}</code>`
FinalEdit(text) == [kind |-> "final", body |-> text]
\* const thinkingMsg = await ctx.reply("🔄 생각 중..."); let lastUpdate = Date.now()
Replied(t) ==
    [text |-> Placeholder, pending |-> {}, lastUpdate |-> t, finalIssued |-> FALSE]

onChunk_Unthrottled(m, t, chunk) ==
    [m EXCEPT !.lastUpdate = t, !.pending = @ \cup {ProgressEdit(chunk)}]

\* async (chunk) => { const now = Date.now();
\*   if (now - lastUpdate > 1000) { lastUpdate = now; await editMessageText(...) } }
onChunk(m, t, chunk) ==
    IF t - m.lastUpdate > 1000
    THEN [m EXCEPT !.lastUpdate = t, !.pending = @ \cup {ProgressEdit(chunk)}]
    ELSE m

RECURSIVE onChunks(_, _, _)
\* if (onChunk) onChunk(fullText): called for each value, never awaited
onChunks(m, t, passed) ==
    IF passed = <<>> THEN m
    ELSE onChunks(onChunk(m, t, Head(passed)), t, Tail(passed))

EditFrame ==
    /\ UNCHANGED <<retryVars, errPool, backendScript, apiKey, keyVars, clientVars,
                   botVars, searchVars, cacheVars, jobVars, priceVars>>
    /\ UNCHANGED <<provider, toolTurns, requests, messages, totalInputTokens,
                   totalOutputTokens, lastUsage, toolCalls, requested, tstate, idx,
                   observations, dispatched, execLog, sumIn, sumOut, allTools>>
    /\ UNCHANGED <<allowedId, topics, hpc, upd, history, cmdSeq>>
    /\ UNCHANGED <<reminders, cronRuns, delivered>>

\* fullText = "" before the for await
ChunkStart ==
    /\ pc = "stream" /\ epos = 0
    /\ fullText' = <<>> /\ sink' = <<>> /\ epos' = 1
    /\ UNCHANGED <<events, pc, result, thinkingMsg, conversations, convSeq>>
    /\ EditFrame

\* one turn of the for await, with the handler's onChunk
ChunkArrives ==
    /\ pc = "stream" /\ epos >= 1 /\ epos <= Len(events)
    /\ LET d == onDelta(provider, fullText, events[epos])
       IN /\ fullText' = d.fullText
          /\ sink' = sink \o d.passed
          /\ thinkingMsg' = onChunks(thinkingMsg, now, d.passed)
    /\ epos' = epos + 1
    /\ UNCHANGED <<events, pc, result, conversations, convSeq>>
    /\ EditFrame

\* the for await is over: return { text: fullText, stats, tokens, cost }
ChatReturns ==
    /\ pc = "stream" /\ epos > Len(events)
    /\ pc' = "done"
    /\ result' = OkResult(fullText, 0, 0)
    /\ UNCHANGED <<events, epos, sink, fullText, thinkingMsg, conversations, convSeq>>
    /\ EditFrame

\* saveConversation(...); saveConversation(...);
\* await ctx.api.editMessageText(chat, thinkingMsg.message_id, final text)
IssueFinalEdit ==
    /\ pc = "done" /\ ~thinkingMsg.finalIssued
    /\ conversations' = SaveTurn(conversations, convSeq, AllowedUser, <<"hi">>, result)
    /\ convSeq' = convSeq + 2
    /\ thinkingMsg' = [thinkingMsg EXCEPT !.finalIssued = TRUE,
                                          !.pending = @ \cup {FinalEdit(result.text)}]
    /\ UNCHANGED <<events, epos, sink, fullText, pc, result>>
    /\ EditFrame

\* Telegram applies one of the edits in flight, or rejects a progress edit
\* (.catch(() => {}) drops the rejection)
EditTakesEffect ==
    /\ \E e \in thinkingMsg.pending :
         \/ thinkingMsg' = [thinkingMsg EXCEPT !.pending = @ \ {e}, !.text = e]
         \/ /\ e.kind = "progress"
            /\ thinkingMsg' = [thinkingMsg EXCEPT !.pending = @ \ {e}]
    /\ UNCHANGED <<events, epos, sink, fullText, pc, result, conversations, convSeq>>
    /\ EditFrame

\* Date.now() advances during the stream, until the throttle of onChunk is open
TimePasses ==
    /\ pc = "stream" /\ now - thinkingMsg.lastUpdate <= 1000
    /\ Tick

\* One text turn whose answer is one streamed response
InitEdits ==
    /\ RetryIdle /\ errPool = {}
    /\ \E p \in Providers : Constructed(p, KeyOf(p), AllKeys)
    /\ pc = "stream" /\ toolTurns = 0 /\ requests = 1
    /\ messages = << <<"user">> >> /\ fullText = <<>>
    /\ totalInputTokens = 0 /\ totalOutputTokens = 0
    /\ lastUsage = [in |-> 0, out |-> 0]
    /\ toolCalls = <<>> /\ requested = <<>> /\ tstate = <<>> /\ idx = 1
    /\ observations = <<>> /\ dispatched = <<>> /\ execLog = {}
    /\ result = NoResult /\ sumIn = 0 /\ sumOut = 0 /\ allTools = TRUE
    /\ BotAtRest /\ SearchAtRest /\ backendScript = <<>>
    /\ CacheAtRest /\ JobsAtRest /\ DbAtRest /\ PricingAtRest
    /\ events \in EventSeqs /\ epos = 0 /\ sink = <<>>
    /\ thinkingMsg = Replied(now)
    /\ reminders = <<>> /\ cronRuns = <<>> /\ delivered = <<>>

NextEdits ==
    \/ ChunkStart
    \/ ChunkArrives
    \/ ChatReturns
    \/ IssueFinalEdit
    \/ EditTakesEffect
    \/ TimePasses

SpecEdits == InitEdits /\ [][NextEdits]_vars

----------------------------------------------------------------------------
\* bot.ts: the reminder scheduler over table reminders (lib/db.ts).  A time
\* is a day and the milliseconds into it; day 0 is the day the bot started.

MaxReminders == 2       \* rows of table reminders
MaxRuns == 3            \* invocations of the cron callback
Minute == 60000

\* remindAt.toISOString(): "YYYY-MM-DDTHH:MM:SS.sssZ"
toISOString(t) == [date |-> t.day, sep |-> "T", time |-> t.ms]
\* datetime('now'): "YYYY-MM-DD HH:MM:SS"
datetimeNow(t) == [date |-> 0, sep |-> " ", time |-> t]
\* the rank of the character between date and time: " " sorts before "T"
SepRank(c) == IF c = " " THEN 0 ELSE 1
\* a <= b on TEXT values
TextLeq(a, b) ==
    \/ a.date < b.date
    \/ /\ a.date = b.date
       /\ \/ SepRank(a.sep) < SepRank(b.sep)
          \/ SepRank(a.sep) = SepRank(b.sep) /\ a.time <= b.time

\* the times a reminder was set for: the evening before, and the start of day 0
RemindTimes == {[day |-> -1, ms |-> 0], [day |-> 0, ms |-> 0]}
\* INSERT INTO reminders (user_id, message, remind_at) VALUES (?, ?, ?)
ReminderRow(i, t) ==
    [id |-> i, user_id |-> AllowedUser, remind_at |-> toISOString(t), is_sent |-> 0]
ReminderTables ==
    UNION {{[i \in 1..n |-> ReminderRow(i, f[i])] : f \in [1..n -> RemindTimes]} :
           n \in 1..MaxReminders}

RECURSIVE OrderByRemindAt(_, _)
\* ORDER BY remind_at ASC, over the rows with the ids in S
OrderByRemindAt(rs, S) ==
    IF S = {} THEN <<>>
    ELSE LET first == CHOOSE i \in S :
                 \A j \in S \ {i} :
                    \/ ~TextLeq(rs[j].remind_at, rs[i].remind_at)
                    \/ TextLeq(rs[i].remind_at, rs[j].remind_at) /\ i < j
         IN <<rs[first]>> \o OrderByRemindAt(rs, S \ {first})

\* SELECT * FROM reminders WHERE is_sent = 0 AND remind_at <= datetime('now')
\* ORDER BY remind_at ASC
getPendingReminders(rs, t) ==
    OrderByRemindAt(rs, {i \in 1..Len(rs) :
                           rs[i].is_sent = 0 /\ TextLeq(rs[i].remind_at, datetimeNow(t))})

\* UPDATE reminders SET is_sent = 1 WHERE id = ?
markReminderSent(rs, reminderId) ==
    [i \in 1..Len(rs) |-> IF rs[i].id = reminderId THEN [rs[i] EXCEPT !.is_sent = 1]
                          ELSE rs[i]]

ReminderFrame ==
    /\ UNCHANGED <<retryVars, errPool, chatVars, backendScript, apiKey, keyVars, clientVars,
                   botVars, streamVars, searchVars, jobVars, dbVars, priceVars, thinkingMsg>>
    /\ UNCHANGED <<schemaCache, lastSchemaUpdate, graphDocs, schemaServed, schemaQueried,
                   schemaCalls, invalidations>>

\* cron.schedule("* * * * *", async () => { const pendingReminders =
\* getPendingReminders(); ...: the callback is invoked every minute, whether
\* or not an earlier invocation has returned
CronFires ==
    /\ Len(cronRuns) < MaxRuns
    /\ now + Minute <= MaxNow
    /\ now' = now + Minute
    /\ cronRuns' = Append(cronRuns,
                          [pendingReminders |-> getPendingReminders(reminders, now'), i |-> 1])
    /\ UNCHANGED <<reminders, delivered>>
    /\ ReminderFrame

\* for (const reminder of pendingReminders) { try { await sendMessage(...);
\* markReminderSent(reminder.id) } catch (err) { logError(...) } }: the send
\* of invocation k settles
SendSettles(k) ==
    /\ k \in 1..Len(cronRuns)
    /\ cronRuns[k].i <= Len(cronRuns[k].pendingReminders)
    /\ LET reminder == cronRuns[k].pendingReminders[cronRuns[k].i]
       IN \/ /\ delivered' = [delivered EXCEPT ![reminder.id] = @ + 1]
             /\ reminders' = markReminderSent(reminders, reminder.id)
          \/ UNCHANGED <<reminders, delivered>>
    /\ cronRuns' = [cronRuns EXCEPT ![k].i = @ + 1]
    /\ UNCHANGED now
    /\ ReminderFrame

\* The scheduler over the reminders an earlier session stored
InitReminders ==
    /\ RetryIdle /\ errPool = {}
    /\ ChatAtRest("idle")
    /\ Constructed("openai", KeyOf("openai"), AllKeys)
    /\ BotAtRest /\ StreamAtRest /\ SearchAtRest /\ backendScript = <<>>
    /\ CacheAtRest /\ JobsAtRest /\ DbAtRest /\ PricingAtRest
    /\ thinkingMsg = NoMessageShown
    /\ reminders \in ReminderTables
    /\ cronRuns = <<>>
    /\ delivered = [i \in 1..Len(reminders) |-> 0]

NextReminders ==
    \/ CronFires
    \/ \E k \in 1..MaxRuns : SendSettles(k)

SpecReminders == InitReminders /\ [][NextReminders]_vars

----------------------------------------------------------------------------
\* Retries and stream errors inside a turn (SpecRequest)

\* a step of withRetry between the opening of a request and its outcome
RetryStep == pc = "awaiting" /\ pc' = "awaiting" /\ rpc' # rpc

\* C31: while withRetry makes its attempts for one request, the message
\* list stays as it was when the request was opened, so every attempt sends
\* the same messages, and no tool is dispatched or executed: the tool
\* results and the scripts run so far do not change.
C31_RetryKeepsConversation ==
    [][RetryStep => /\ messages' = messages
                    /\ requests' = requests
                    /\ dispatched' = dispatched /\ dispatched = <<>>
                    /\ observations' = observations
                    /\ execLog' = execLog
                    /\ toolTurns' = toolTurns]_vars

\* the second request of a turn, sent after a tool result was appended, is
\* at its third attempt
C31_Witness ==
    /\ pc = "awaiting" /\ rpc = "calling" /\ requests = 2 /\ calls = 2 /\ attempt = 2
    /\ Len(messages) > 1

\* C33: an error raised while the response stream is consumed, after
\* withRetry has returned, ends the turn at once with the error result of
\* that error: fn is not called again and nothing sleeps, whether or not the
\* error is of a retryable kind.
C33_StreamErrorNotRetried ==
    [][(pc = "awaiting" /\ rpc = "returned" /\ raised' \notin {raised, NoError})
        => /\ pc' = "done"
           /\ result'.kind = "error"
           /\ result'.text = <<"Error: ">> \o raised'.message
           /\ calls' = calls /\ sleeps' = sleeps /\ rpc' = "returned"
           /\ requests' = requests]_vars

\* a stream failed with status 429 after its request had been opened at the
\* first attempt
C33_Witness ==
    /\ pc = "done" /\ rpc = "returned" /\ result.kind = "error"
    /\ raised.status = 429 /\ isRetryable(raised)
    /\ calls = 1 /\ sleeps = <<>>


----------------------------------------------------------------------------
\* The iteration that reaches MAX_TOOL_TURNS (Spec)

AtCeiling ==
    pc = "done" /\ result.kind = "ok" /\ provider \in SeqProviders
        /\ toolTurns = MAX_TOOL_TURNS

\* C32: in chatOpenAI and chatClaude the response that brings toolTurns to
\* MAX_TOOL_TURNS still has every tool call it holds dispatched and the
\* results appended to the messages, and then the loop ends: no request
\* follows, so the turn has issued MAX_TOOL_TURNS requests and the last
\* message is a tool result no request has carried.
C32_CeilingIterationRuns ==
    /\ provider \in SeqProviders => requests <= MAX_TOOL_TURNS
    /\ AtCeiling =>
          /\ requests = MAX_TOOL_TURNS
          /\ Len(requested) > 0
          /\ \A i \in 1..Len(requested) : ToolResultAppended(requested[i].id)
          /\ messages[Len(messages)][1] \in {"tool", "tool_result"}

----------------------------------------------------------------------------
\* The placeholder message of a text turn (SpecEdits)

\* the turn is complete: the final edit was issued and no edit is in flight
TurnComplete == thinkingMsg.finalIssued /\ thinkingMsg.pending = {}

\* every streaming-progress edit of the placeholder message is issued before
\* the final edit
ProgressIssuedFirst ==
    [][thinkingMsg.finalIssued =>
        \A e \in thinkingMsg'.pending : e.kind = "progress" => e \in thinkingMsg.pending]_vars

\* C34: after a text turn completes, the message shown to the user is the
\* final answer: no progress edit takes effect after the final edit
C34_FinalAnswerShown ==
    TurnComplete => thinkingMsg.text = FinalEdit(result.text)


----------------------------------------------------------------------------
\* The reminder scheduler (SpecReminders)

\* C35: each reminder is delivered at most once, including when a tick starts
\* while the previous tick is still sending
C35_DeliveredAtMostOnce ==
    \A i \in 1..Len(reminders) : delivered[i] <= 1

\* a reminder that is marked sent is in no list read afterwards, and a
\* reminder whose send failed is still pending
SentStaysSent ==
    [][\A i \in 1..Len(reminders) :
         /\ reminders[i].is_sent = 1 => reminders'[i].is_sent = 1
         /\ delivered'[i] > delivered[i] => reminders'[i].is_sent = 1
         /\ (delivered'[i] = delivered[i] /\ reminders[i].is_sent = 0)
                => reminders'[i].is_sent = 0]_vars


----------------------------------------------------------------------------
\* A failed digest refresh (SpecCache)

\* a getGraphSchema call returns
SchemaCall == schemaCalls' # schemaCalls

\* C36: a failed digest refresh returns the fallback vault-structure text
\* without storing it: the schema cache and its timestamp are left
\* unchanged, and the next getGraphSchema call attempts the refresh again
C36_FailedRefreshNotStored ==
    [][/\ (SchemaCall /\ schemaServed' = BasicSchema) =>
            /\ schemaQueried'
            /\ schemaCache' = schemaCache
            /\ lastSchemaUpdate' = lastSchemaUpdate
       /\ (SchemaCall /\ schemaServed = BasicSchema) => schemaQueried']_vars

\* an expired digest is still stored after the refresh failed
C36_Witness ==
    /\ schemaServed = BasicSchema /\ schemaQueried
    /\ schemaCache.cached /\ schemaCache.documents > 0
    /\ lastSchemaUpdate > 0 /\ now - lastSchemaUpdate >= schemaCacheExpiry


----------------------------------------------------------------------------
\* Routing in auto mode (SpecSwitch)

\* the replies that are "complex" once lower-cased and trimmed
ComplexReplies == {"complex", " Complex\n"}
\* the classifier has replied in this turn
Classified == bpc = "chat" /\ routeOutcome \notin {"none", "throw", "noclient"}
RouteTarget == IF routeOutcome \in ComplexReplies THEN "claude" ELSE "openai"

\* C37: in auto mode any classifier reply other than "complex" (after
\* lower-casing and trimming), an empty or unrecognized one included, routes
\* the turn to openai and only "complex" routes it to claude; when the
\* target provider has no credential the turn is served by the provider
\* that was active before
C37_RouteByDecision ==
    Classified =>
        /\ switchArg = RouteTarget
        /\ provider = IF StoredKey(RouteTarget) # "" THEN RouteTarget ELSE routeFrom

\* a reply of " Complex\n" was routed to claude and the turn was answered there
C37_Witness ==
    /\ Classified /\ routeOutcome = " Complex\n" /\ routeFrom = "openai"
    /\ provider = "claude" /\ pc = "done" /\ result.kind = "ok"

\* "complex" with no Anthropic credential: the turn was answered by gemini,
\* which was active before
C37_WitnessNoCredential ==
    /\ Classified /\ routeOutcome = "complex" /\ claudeApiKey = ""
    /\ routeFrom = "gemini" /\ provider = "gemini" /\ pc = "done" /\ result.kind = "ok"


----------------------------------------------------------------------------
\* The size of the retrieval digest (SpecSearch)

\* the positions of the search results whose score is greater than 0.2
Passing == {k \in 1..Len(hits.results) : hits.results[k].score > 20}
\* chat() made the search and the search answered
Searched == pc # "enter" /\ Len(searchCalls) = 1 /\ ~hits.throws
InDigest(r) == \E i \in 1..Len(sortedResults) : sortedResults[i] = r

\* C38: the injected retrieval digest has at most 5 entries and contains
\* only results whose score is greater than 0.2, the filter being applied
\* before the priority re-ranking: the digest holds the 5 first of the
\* results that passed, or all of them; when no result passes the filter
\* the user message is sent unmodified
C38_DigestBounded ==
    /\ Len(contextPrefix) <= 5
    /\ \A i \in 1..Len(sortedResults) : sortedResults[i].score > 20
    /\ Searched =>
         /\ contextPrefix = Digest(sortedResults)
         /\ Len(contextPrefix) = IF Cardinality(Passing) < 5 THEN Cardinality(Passing) ELSE 5
         /\ \A k \in Passing : \A i \in 1..Len(sortedResults) :
               InDigest(hits.results[k]) \/ Compare(hits.results[k], sortedResults[i]) >= 0
         /\ enrichedMessage = IF Passing = {} THEN <<MessagePart(message)>>
                              ELSE <<ContextPart(contextPrefix), MessagePart(message)>>

\* seven results of which six pass the filter and a tracker file does not:
\* the digest has five entries
C38_Witness ==
    /\ Searched /\ Len(hits.results) = 7 /\ Cardinality(Passing) = 6
    /\ \E k \in 1..7 : hits.results[k].score = 20 /\ isPriority(hits.results[k].filePath)
    /\ Len(contextPrefix) = 5
    /\ enrichedMessage = <<ContextPart(contextPrefix), MessagePart(message)>>

\* no result passes the filter: the message goes out as it came
C38_WitnessNonePass ==
    /\ Searched /\ Len(hits.results) = 7 /\ Passing = {}
    /\ pc = "awaiting" /\ enrichedMessage = <<MessagePart(message)>>


====
